---- MODULE Spec2Model ----
(***************************************************************************)
(* Model of the query-time search pipeline of book-restaurant-agent:       *)
(*   server/book_agent/translation_service.py  (query normalisation)       *)
(*   server/book_agent/restaurant_search.py    (search, manual filters)    *)
(*                                                                         *)
(* Text is a sequence of Unicode code points, so that the Hangul range     *)
(* test, case-insensitive substring search, joining and splitting are      *)
(* computed as the code computes them.  Star ratings are counted in half   *)
(* stars (4.5 stars = 9).                                                  *)
(***************************************************************************)
EXTENDS Integers, Sequences, FiniteSets, TLC

VARIABLES
    pc,                \* where the call being followed stands
    query,             \* the query argument
    filters,           \* the filters argument
    limit,             \* the limit argument
    translator,        \* translator of the process-wide TranslationService
    model_reply,       \* what the translation pipeline answers when called
    enhanced_query,    \* the value translate_korean_query returns
    query_embedding,   \* the value model.encode returns
    index_queries,     \* the queries client.search has received
    search_results,    \* the value client.search returns
    filtered_results,  \* the list after the filter step
    results,           \* the outcome of search_restaurants
    log,               \* the steps taken so far, in order
    user_message,      \* the argument of _handle_user_message
    search_service,    \* the module-level _search_service of restaurant_search.py
    restaurants,       \* the argument of format_restaurant_response
    response,          \* the outcome of format_restaurant_response or of
                       \* _handle_user_message
    location_arg,      \* the location argument of
                       \* get_recommendations_by_preferences
    callers,           \* the threads inside get_search_service or
                       \* get_translation_service, each with its position
    instances,         \* the module-level _search_service and
                       \* _translation_service
    constructed,       \* the services constructed so far, by class
    sessions,          \* the module-level sessions set of server.py
    http_log,          \* the requests answered so far, with their status
    agent_calls        \* the calls of invoke_agent made so far

\* the variables of the chat entry point and of the formatter
agent_vars == <<user_message, search_service, restaurants, response>>

\* the variables of the two lazily built services
service_vars == <<callers, instances, constructed>>

\* the variables of server.py
server_vars == <<sessions, http_log, agent_calls>>

vars == <<pc, query, filters, limit, translator, model_reply, enhanced_query,
          query_embedding, index_queries, search_results, filtered_results,
          results, log, user_message, search_service, restaurants, response,
          location_arg, callers, instances, constructed, sessions, http_log,
          agent_calls>>

----------------------------------------------------------------------------
(* Bounds *)

\* longest list the vector index hands back in one query
MaxResults == 3

\* largest limit argument of search_restaurants
MaxLimit == 2

----------------------------------------------------------------------------
(* Python values *)

\* a value that is absent from a dict (dict.get falls back to its default)
Missing(d) == [tag |-> "missing", v |-> d]

\* a field that is present and holds None
Null(d) == [tag |-> "null", v |-> d]

\* a field that is present and holds a value of the expected type
Val(x) == [tag |-> "val", v |-> x]

\* a field that is present and holds a value of another type (a str where a
\* number is expected)
Bad(d) == [tag |-> "bad", v |-> d]

\* dict.get(key, default): the default only when the key is absent
Get(field, default) ==
    IF field.tag = "missing" THEN Val(default) ELSE field

\* dict.get(key): None when the key is absent
GetOrNone(field) ==
    IF field.tag = "missing" THEN Null(field.v) ELSE field

\* an Optional argument holding None
None(d) == [tag |-> "none", v |-> d]

\* the outcome of a call: a returned value or a raised exception
Return(x) == [raised |-> FALSE, value |-> x]

Raise(d) == [raised |-> TRUE, value |-> d]

----------------------------------------------------------------------------
(* Strings *)

\* Python's  sub in s  on str
IsSubstring(sub, s) ==
    \E i \in 0..(Len(s) - Len(sub)) :
        \A k \in 1..Len(sub) : s[i + k] = sub[k]

\* str.startswith
StartsWith(s, prefix) ==
    /\ Len(prefix) <= Len(s)
    /\ \A k \in 1..Len(prefix) : s[k] = prefix[k]

----------------------------------------------------------------------------
(* restaurant_search.py: SearchFilters and the payloads held by the index *)

\* "Santa Barbara"
SantaBarbara == <<83, 97, 110, 116, 97, 32, 66, 97, 114, 98, 97, 114, 97>>

\* "Goleta"
Goleta == <<71, 111, 108, 101, 116, 97>>

\* "Santa"
Santa == <<83, 97, 110, 116, 97>>

\* "santa"
santa == <<115, 97, 110, 116, 97>>

\* a payload as stored with a point; every field may be absent, None or of
\* an unexpected type
Payload(city, stars, categories, kids, dogs) ==
    [city |-> city, stars |-> stars, categories |-> categories,
     good_for_kids |-> kids, dogs_allowed |-> dogs]

\* a ScoredPoint returned by client.search; scores are in hundredths
Point(id, score, payload) == [id |-> id, score |-> score, payload |-> payload]

\* the records the index can return
IndexPoints ==
    { Point(1, 91, Payload(Val(SantaBarbara), Val(9), Val(<<"Italian", "Pizza">>),
                           Val(TRUE), Val(FALSE))),
      Point(2, 84, Payload(Val(Goleta), Val(6), Val(<<"Chinese">>),
                           Val(FALSE), Val(TRUE))),
      Point(3, 77, Payload(Val(SantaBarbara), Val(10), Val(<<>>),
                           Val(TRUE), Val(TRUE))),
      Point(4, 70, Payload(Missing(<<>>), Missing(0), Missing(<<>>),
                           Missing(FALSE), Missing(FALSE))),
      Point(5, 63, Payload(Null(<<>>), Val(8), Val(<<"Pizza">>),
                           Missing(FALSE), Val(FALSE))),
      Point(6, 56, Payload(Val(Goleta), Bad(0), Null(<<>>),
                           Val(FALSE), Missing(FALSE))),
      Point(7, 49, Payload(Missing(<<>>), Null(0), Val(<<"Thai">>),
                           Val(TRUE), Null(FALSE))) }

\* SearchFilters; price_range is never read by the code and is left out
SearchFilters(location, categories, min_stars, kids, dogs) ==
    [location |-> location, categories |-> categories, min_stars |-> min_stars,
     good_for_kids |-> kids, dogs_allowed |-> dogs]

LocationArgs == {None(<<>>), Val(<<>>), Val(Santa), Val(santa)}

CategoriesArgs == {None(<<>>), Val(<<>>), Val(<<"Pizza", "Thai">>)}

MinStarsArgs == {None(0), Val(0), Val(8)}

FlagArgs == {None(FALSE), Val(TRUE), Val(FALSE)}

\* number of fields of a SearchFilters that are not None
SetCount(f) ==
    Cardinality({k \in {"location", "categories", "min_stars",
                        "good_for_kids", "dogs_allowed"} : f[k].tag # "none"})

\* most fields set at once in the filters that are tried
MaxConstraints == 2

FilterArgs ==
    { f \in [location : LocationArgs, categories : CategoriesArgs,
             min_stars : MinStarsArgs, good_for_kids : FlagArgs,
             dogs_allowed : FlagArgs] : SetCount(f) <= MaxConstraints }

\* all sequences over S of length at most n
RECURSIVE SeqsUpTo(_, _)
SeqsUpTo(S, n) ==
    IF n = 0 THEN {<<>>}
    ELSE LET shorter == SeqsUpTo(S, n - 1)
         IN  shorter \cup {Append(s, x) : s \in shorter, x \in S}

\* Python truthiness of an Optional[str] / Optional[list]
TruthySeq(arg) == arg.tag = "val" /\ arg.v # <<>>

\* Python truthiness of an Optional[float]
TruthyNum(arg) == arg.tag = "val" /\ arg.v # 0

\* line 161:  filters.location and filters.location not in payload.get('city', '')
LocationStep(payload, f) ==
    IF ~TruthySeq(f.location) THEN "pass"
    ELSE LET city == Get(payload.city, <<>>)
         IN  IF city.tag # "val" THEN "raise"
             ELSE IF ~IsSubstring(f.location.v, city.v) THEN "continue"
             ELSE "pass"

\* line 165:  filters.min_stars and payload.get('stars', 0) < filters.min_stars
StarsStep(payload, f) ==
    IF ~TruthyNum(f.min_stars) THEN "pass"
    ELSE LET stars == Get(payload.stars, 0)
         IN  IF stars.tag # "val" THEN "raise"
             ELSE IF stars.v < f.min_stars.v THEN "continue"
             ELSE "pass"

\* lines 169-172:  any(cat in restaurant_categories for cat in filters.categories)
CategoriesStep(payload, f) ==
    IF ~TruthySeq(f.categories) THEN "pass"
    ELSE LET restaurant_categories == Get(payload.categories, <<>>)
         IN  IF restaurant_categories.tag # "val" THEN "raise"
             ELSE IF ~\E i \in 1..Len(f.categories.v) :
                        \E j \in 1..Len(restaurant_categories.v) :
                            restaurant_categories.v[j] = f.categories.v[i]
                  THEN "continue"
             ELSE "pass"

\* lines 175, 178:  flag is not None and payload.get(key) != flag
FlagStep(field, arg) ==
    IF arg.tag = "none" THEN "pass"
    ELSE LET have == GetOrNone(field)
         IN  IF have.tag # "val" \/ have.v # arg.v THEN "continue" ELSE "pass"

\* the body of the loop for one result: "append", "continue" or "raise"
FilterOne(payload, f) ==
    LET a == LocationStep(payload, f)
        b == StarsStep(payload, f)
        c == CategoriesStep(payload, f)
        d == FlagStep(payload.good_for_kids, f.good_for_kids)
        e == FlagStep(payload.dogs_allowed, f.dogs_allowed)
    IN  IF a # "pass" THEN a
        ELSE IF b # "pass" THEN b
        ELSE IF c # "pass" THEN c
        ELSE IF d # "pass" THEN d
        ELSE IF e # "pass" THEN e
        ELSE "append"

\* FilterLoop putting each kept result in front of the list instead of at
\* its end
RECURSIVE FilterLoopPrepending(_, _, _, _)
FilterLoopPrepending(rs, f, i, filtered) ==
    IF i > Len(rs) THEN Return(filtered)
    ELSE LET step == FilterOne(rs[i].payload, f)
         IN  IF step = "raise" THEN Raise(<<>>)
             ELSE FilterLoopPrepending(rs, f, i + 1,
                                       IF step = "append" THEN <<rs[i]>> \o filtered
                                       ELSE filtered)

\* the loop of _apply_manual_filters from result i on, with the list built so far
RECURSIVE FilterLoop(_, _, _, _)
FilterLoop(rs, f, i, filtered) ==
    IF i > Len(rs) THEN Return(filtered)
    ELSE LET step == FilterOne(rs[i].payload, f)
         IN  IF step = "raise" THEN Raise(<<>>)
             ELSE FilterLoop(rs, f, i + 1,
                             IF step = "append" THEN Append(filtered, rs[i])
                             ELSE filtered)

\* RestaurantSearchService._apply_manual_filters(results, filters)
_apply_manual_filters(rs, f) == FilterLoop(rs, f, 1, <<>>)

----------------------------------------------------------------------------
(* Idle values of the variables an exercise does not use *)

Idle == "idle"

----------------------------------------------------------------------------
(* SpecFilter: _apply_manual_filters on every bounded input *)

InitFilter ==
    /\ pc = "filter_call"
    /\ filters \in FilterArgs
    /\ search_results \in SeqsUpTo(IndexPoints, MaxResults)
    /\ filtered_results = Idle
    /\ query = Idle
    /\ limit = Idle
    /\ translator = Idle
    /\ model_reply = Idle
    /\ enhanced_query = Idle
    /\ results = Idle
    /\ query_embedding = Idle
    /\ index_queries = Idle
    /\ log = Idle
    /\ user_message = Idle
    /\ search_service = Idle
    /\ restaurants = Idle
    /\ response = Idle
    /\ location_arg = Idle
    /\ callers = Idle
    /\ instances = Idle
    /\ constructed = Idle
    /\ sessions = Idle
    /\ http_log = Idle
    /\ agent_calls = Idle

ApplyManualFilters ==
    /\ pc = "filter_call"
    /\ filtered_results' = _apply_manual_filters(search_results, filters)
    /\ pc' = "filter_done"
    /\ UNCHANGED <<location_arg, service_vars, server_vars>>
    /\ UNCHANGED agent_vars
    /\ UNCHANGED <<query, filters, limit, translator, model_reply,
                   enhanced_query, query_embedding, index_queries,
                   search_results, results, log>>

NextFilter == ApplyManualFilters

SpecFilter == InitFilter /\ [][NextFilter]_vars

----------------------------------------------------------------------------
(* Properties of _apply_manual_filters (checked under SpecFilter) *)

FilterDone == pc = "filter_done"

FilterReturned == FilterDone /\ ~filtered_results.raised

\* a is b with some elements left out: same elements, same relative order
RECURSIVE IsSubsequence(_, _)
IsSubsequence(a, b) ==
    IF a = <<>> THEN TRUE
    ELSE IF b = <<>> THEN FALSE
    ELSE IF Head(a) = Head(b) THEN IsSubsequence(Tail(a), Tail(b))
    ELSE IsSubsequence(a, Tail(b))

\* the star ratings of a list of points
StarsOf(rs) == [i \in 1..Len(rs) |-> rs[i].payload.stars]

\* filters in which only min_stars is set
OnlyMinStars(m) ==
    SearchFilters(None(<<>>), None(<<>>), Val(m), None(FALSE), None(FALSE))

\* a field of a payload read as section 4.3 reads it: absent, None or of a
\* wrong type count as the empty default (which such a field carries in v)
Defaulted(field) == field.v

\* section 4.3 (a)-(d) with None as the only unset value of a constraint
SatisfiesEverySetConstraint(payload, f) ==
    /\ f.location.tag = "none"
          \/ IsSubstring(f.location.v, Defaulted(payload.city))
    /\ f.min_stars.tag = "none"
          \/ Defaulted(payload.stars) >= f.min_stars.v
    /\ f.categories.tag = "none"
          \/ \E i \in 1..Len(f.categories.v) :
                \E j \in 1..Len(Defaulted(payload.categories)) :
                    Defaulted(payload.categories)[j] = f.categories.v[i]
    /\ f.good_for_kids.tag = "none"
          \/ payload.good_for_kids = Val(f.good_for_kids.v)
    /\ f.dogs_allowed.tag = "none"
          \/ payload.dogs_allowed = Val(f.dogs_allowed.v)

\* C3: when _apply_manual_filters returns, it has kept exactly the candidates
\* that satisfy every constraint that is not None, an empty location, a zero
\* min_stars and an empty categories list counting as set constraints.
C3_KeepsIffEverySetConstraintHolds ==
    FilterReturned =>
        filtered_results.value =
            SelectSeq(search_results,
                      LAMBDA r : SatisfiesEverySetConstraint(r.payload, filters))

\* C4: the list _apply_manual_filters returns is a subsequence of its input
\* (only input elements, none repeated, relative order kept), so it is never
\* longer; min_stars = 4.0 on stars [4.5, 3.0, 5.0] gives [4.5, 5.0].
C4_ResultIsSubsequence ==
    FilterReturned =>
        /\ IsSubsequence(filtered_results.value, search_results)
        /\ Len(filtered_results.value) <= Len(search_results)
        /\ (filters = OnlyMinStars(8)
              /\ StarsOf(search_results) = <<Val(9), Val(6), Val(10)>>)
           => StarsOf(filtered_results.value) = <<Val(9), Val(10)>>

\* the scenario of section 8: two of three candidates survive, in order
C4_Witness ==
    /\ FilterReturned
    /\ filters = OnlyMinStars(8)
    /\ StarsOf(search_results) = <<Val(9), Val(6), Val(10)>>
    /\ Len(filtered_results.value) = 2

\* a payload in which every absent field holds its empty default
WithDefaults(payload) ==
    [k \in DOMAIN payload |->
        IF payload[k].tag = "missing" THEN Val(payload[k].v) ELSE payload[k]]

\* C5: a field absent from a payload is evaluated as its empty default: the
\* candidates kept are those kept when every absent field (city, stars,
\* categories, good_for_kids, dogs_allowed) is filled in with "", 0, [],
\* False, False.
C5_MissingFieldIsEmptyDefault ==
    FilterReturned =>
        filtered_results.value =
            SelectSeq(search_results,
                      LAMBDA r : FilterOne(WithDefaults(r.payload), filters) = "append")

\* C6: _apply_manual_filters never raises, whatever the payloads hold.
C6_FilterNeverRaises ==
    FilterDone => ~filtered_results.raised

----------------------------------------------------------------------------
(* translation_service.py: text helpers *)

\* first and last code point of the class [가-힣] of is_korean_text
HangulFirst == 44032

HangulLast == 55203

\* TranslationService.is_korean_text: re.search('[가-힣]+', text)
is_korean_text(text) ==
    \E i \in 1..Len(text) : HangulFirst <= text[i] /\ text[i] <= HangulLast

\* case folding of re.IGNORECASE on the characters that occur (ASCII letters;
\* Hangul has no case)
Lower(c) == IF c >= 65 /\ c <= 90 THEN c + 32 ELSE c

LowerStr(s) == [i \in 1..Len(s) |-> Lower(s[i])]

\* re.search(pattern, text, re.IGNORECASE) for a pattern a1|a2|...|an of
\* literal alternatives
re_search(pattern, text) ==
    LET folded == LowerStr(text)
    IN  \E k \in 1..Len(pattern) : IsSubstring(LowerStr(pattern[k]), folded)

\* characters str.split() and str.strip() treat as white space
IsSpace(c) == c \in {9, 10, 11, 12, 13, 32}

\* sep.join(parts)
RECURSIVE Join(_, _)
Join(parts, sep) ==
    IF parts = <<>> THEN <<>>
    ELSE IF Len(parts) = 1 THEN parts[1]
    ELSE parts[1] \o sep \o Join(Tail(parts), sep)

\* str.split(): the maximal runs of non-space characters, in order;
\* word is the run being read
RECURSIVE SplitFrom(_, _, _)
SplitFrom(s, i, word) ==
    IF i > Len(s) THEN (IF word = <<>> THEN <<>> ELSE <<word>>)
    ELSE IF IsSpace(s[i])
         THEN (IF word = <<>> THEN <<>> ELSE <<word>>) \o SplitFrom(s, i + 1, <<>>)
         ELSE SplitFrom(s, i + 1, Append(word, s[i]))

Split(s) == SplitFrom(s, 1, <<>>)

\* str.strip() leaves nothing
IsBlank(s) == \A i \in 1..Len(s) : IsSpace(s[i])

\* the elements of a sequence
Range(s) == {s[i] : i \in 1..Len(s)}

\* every order in which a set can be listed
RECURSIVE Orderings(_)
Orderings(S) ==
    IF S = {} THEN {<<>>}
    ELSE UNION {{<<x>> \o p : p \in Orderings(S \ {x})} : x \in S}

----------------------------------------------------------------------------
(* translation_service.py: the rule table of _pattern_based_translation *)

Rule(pattern, english_translation) ==
    [pattern |-> pattern, english_translation |-> english_translation]

\* lines 74-123, in insertion order; each pattern is the list of its
\* alternatives and each translation its text, as code points
KOREAN_FOOD_PATTERNS ==
    <<
      \* line 76: 'chinese food restaurant'
      Rule(<<<<51473, 44397>>,
             <<51473, 49885>>,
             <<51676, 51109>>,
             <<51692, 48981>>,
             <<53461, 49688, 50977>>,
             <<47560, 54028, 46160, 48512>>,
             <<44417, 48372>>,
             <<46372, 49452>>,
             <<51473, 49885, 51665>>,
             <<51473, 44397, 51665>>,
             <<51473, 44397, 44288>>>>,
           <<99, 104, 105, 110, 101, 115, 101, 32, 102, 111, 111, 100, 32, 114, 101, 115, 116, 97, 117, 114, 97, 110, 116>>),
      \* line 77: 'japanese sushi ramen restaurant'
      Rule(<<<<51068, 48376>>,
             <<51068, 49885>>,
             <<49828, 49884>>,
             <<49324, 49884, 48120>>,
             <<46972, 47704>>,
             <<50864, 46041>>,
             <<49548, 48148>>,
             <<46024, 44620, 49828>>,
             <<44508, 46041>>,
             <<49324, 52992>>,
             <<51068, 49885, 51665>>,
             <<51068, 48376, 51665>>>>,
           <<106, 97, 112, 97, 110, 101, 115, 101, 32, 115, 117, 115, 104, 105, 32, 114, 97, 109, 101, 110, 32, 114, 101, 115, 116, 97, 117, 114, 97, 110, 116>>),
      \* line 78: 'italian pasta pizza restaurant'
      Rule(<<<<51060, 53448, 47532, 50500>>,
             <<50577, 49885>>,
             <<54028, 49828, 53440>>,
             <<54588, 51088>>,
             <<47532, 51312, 46608>>,
             <<49828, 54028, 44172, 54000>>,
             <<51060, 53448, 47532, 50500, 49885>>,
             <<50577, 49885, 51665>>>>,
           <<105, 116, 97, 108, 105, 97, 110, 32, 112, 97, 115, 116, 97, 32, 112, 105, 122, 122, 97, 32, 114, 101, 115, 116, 97, 117, 114, 97, 110, 116>>),
      \* line 79: 'thai food restaurant'
      Rule(<<<<53468, 44397>>,
             <<53468, 49885>>,
             <<54047, 53440, 51060>>,
             <<46624, 50577, 45005>>,
             <<44536, 47536, 52964, 47532>>,
             <<54060, 49468>>,
             <<53468, 44397, 49885>>>>,
           <<116, 104, 97, 105, 32, 102, 111, 111, 100, 32, 114, 101, 115, 116, 97, 117, 114, 97, 110, 116>>),
      \* line 80: 'indian curry restaurant'
      Rule(<<<<51064, 46020>>,
             <<51064, 46020, 49885>>,
             <<52964, 47532>>,
             <<45212>>,
             <<53444, 46160, 47532>>,
             <<48148, 49828, 47560, 54000>>>>,
           <<105, 110, 100, 105, 97, 110, 32, 99, 117, 114, 114, 121, 32, 114, 101, 115, 116, 97, 117, 114, 97, 110, 116>>),
      \* line 81: 'vietnamese pho restaurant'
      Rule(<<<<48288, 53944, 45224>>,
             <<50900, 45224>>,
             <<49920, 44397, 49688>>,
             <<48516, 51676>>,
             <<48152, 48120>>>>,
           <<118, 105, 101, 116, 110, 97, 109, 101, 115, 101, 32, 112, 104, 111, 32, 114, 101, 115, 116, 97, 117, 114, 97, 110, 116>>),
      \* line 82: 'mexican taco burrito restaurant'
      Rule(<<<<47701, 49884, 53076>>,
             <<47701, 49884, 52856>>,
             <<53440, 53076>>,
             <<48512, 47532, 46608>>,
             <<52992, 49324, 46356, 50556>>,
             <<45208, 52488>>>>,
           <<109, 101, 120, 105, 99, 97, 110, 32, 116, 97, 99, 111, 32, 98, 117, 114, 114, 105, 116, 111, 32, 114, 101, 115, 116, 97, 117, 114, 97, 110, 116>>),
      \* line 83: 'korean bbq restaurant'
      Rule(<<<<54620, 44397>>,
             <<54620, 49885>>,
             <<44608, 52824>>,
             <<48520, 44256, 44592>>,
             <<44040, 48708>>,
             <<48708, 48724, 48165>>,
             <<45257, 47732>>,
             <<49340, 44217, 49332>>,
             <<54620, 49885, 51665>>>>,
           <<107, 111, 114, 101, 97, 110, 32, 98, 98, 113, 32, 114, 101, 115, 116, 97, 117, 114, 97, 110, 116>>),
      \* line 84: 'french restaurant'
      Rule(<<<<54532, 46993, 49828>>,
             <<54532, 47116, 52824>>,
             <<50640, 49828, 52852, 47476, 44256>>,
             <<53356, 47196, 50500, 49345>>>>,
           <<102, 114, 101, 110, 99, 104, 32, 114, 101, 115, 116, 97, 117, 114, 97, 110, 116>>),
      \* line 85: 'spanish restaurant'
      Rule(<<<<49828, 54168, 51064>>,
             <<49828, 54056, 45768, 49884>>,
             <<54028, 50640, 50556>>,
             <<53440, 54028, 49828>>>>,
           <<115, 112, 97, 110, 105, 115, 104, 32, 114, 101, 115, 116, 97, 117, 114, 97, 110, 116>>),
      \* line 88: 'pizza restaurant'
      Rule(<<<<54588, 51088>>,
             <<54588, 51088, 51665>>>>,
           <<112, 105, 122, 122, 97, 32, 114, 101, 115, 116, 97, 117, 114, 97, 110, 116>>),
      \* line 89: 'burger hamburger restaurant'
      Rule(<<<<54660, 48260, 44144>>,
             <<48260, 44144>>,
             <<48260, 44144, 51665>>>>,
           <<98, 117, 114, 103, 101, 114, 32, 104, 97, 109, 98, 117, 114, 103, 101, 114, 32, 114, 101, 115, 116, 97, 117, 114, 97, 110, 116>>),
      \* line 90: 'chicken fried restaurant'
      Rule(<<<<52824, 53416>>,
             <<45805>>,
             <<54532, 46972, 51060, 46300>>,
             <<52824, 53416, 51665>>>>,
           <<99, 104, 105, 99, 107, 101, 110, 32, 102, 114, 105, 101, 100, 32, 114, 101, 115, 116, 97, 117, 114, 97, 110, 116>>),
      \* line 91: 'steak beef steakhouse'
      Rule(<<<<49828, 53580, 51060, 53356>>,
             <<49548, 44256, 44592>>,
             <<49828, 53580, 51060, 53356, 54616, 50864, 49828>>>>,
           <<115, 116, 101, 97, 107, 32, 98, 101, 101, 102, 32, 115, 116, 101, 97, 107, 104, 111, 117, 115, 101>>),
      \* line 92: 'barbecue bbq grilled restaurant'
      Rule(<<<<48148, 48288, 53328>>,
             <<48148, 48708, 53328>>,
             <<66, 66, 81>>,
             <<44396, 51060>>>>,
           <<98, 97, 114, 98, 101, 99, 117, 101, 32, 98, 98, 113, 32, 103, 114, 105, 108, 108, 101, 100, 32, 114, 101, 115, 116, 97, 117, 114, 97, 110, 116>>),
      \* line 93: 'seafood fish restaurant'
      Rule(<<<<54644, 49328, 47932>>,
             <<49373, 49440>>,
             <<49352, 50864>>,
             <<46989, 49828, 53552>>,
             <<51312, 44060>>,
             <<54924>>,
             <<54943, 51665>>>>,
           <<115, 101, 97, 102, 111, 111, 100, 32, 102, 105, 115, 104, 32, 114, 101, 115, 116, 97, 117, 114, 97, 110, 116>>),
      \* line 94: 'salad vegetarian restaurant'
      Rule(<<<<49360, 47084, 46300>>,
             <<50556, 52292>>,
             <<52292, 49885>>>>,
           <<115, 97, 108, 97, 100, 32, 118, 101, 103, 101, 116, 97, 114, 105, 97, 110, 32, 114, 101, 115, 116, 97, 117, 114, 97, 110, 116>>),
      \* line 97: 'cafe coffee shop'
      Rule(<<<<52852, 54168>>,
             <<52964, 54588>>,
             <<50640, 49828, 54532, 47112, 49548>>,
             <<46972, 46524>>,
             <<50500, 47700, 47532, 52852, 45432>>,
             <<52964, 54588, 49677>>>>,
           <<99, 97, 102, 101, 32, 99, 111, 102, 102, 101, 101, 32, 115, 104, 111, 112>>),
      \* line 98: 'bar pub beer wine cocktail'
      Rule(<<<<49696, 51665>>,
             <<48148>>,
             <<47589, 51452>>,
             <<50752, 51064>>,
             <<52853, 53580, 51068>>,
             <<54840, 54532>>,
             <<51452, 51216>>>>,
           <<98, 97, 114, 32, 112, 117, 98, 32, 98, 101, 101, 114, 32, 119, 105, 110, 101, 32, 99, 111, 99, 107, 116, 97, 105, 108>>),
      \* line 99: 'fast food restaurant'
      Rule(<<<<54056, 49828, 53944, 54392, 46300>>,
             <<54056, 54056>>,
             <<54056, 49828, 53944>>>>,
           <<102, 97, 115, 116, 32, 102, 111, 111, 100, 32, 114, 101, 115, 116, 97, 117, 114, 97, 110, 116>>),
      \* line 100: 'buffet all you can eat restaurant'
      Rule(<<<<48596, 54168>>,
             <<48512, 54168>>,
             <<50732, 50976, 52884, 51079>>>>,
           <<98, 117, 102, 102, 101, 116, 32, 97, 108, 108, 32, 121, 111, 117, 32, 99, 97, 110, 32, 101, 97, 116, 32, 114, 101, 115, 116, 97, 117, 114, 97, 110, 116>>),
      \* line 103: 'breakfast brunch morning restaurant'
      Rule(<<<<50500, 52840>>,
             <<47784, 45789>>,
             <<48652, 47088, 52824>>>>,
           <<98, 114, 101, 97, 107, 102, 97, 115, 116, 32, 98, 114, 117, 110, 99, 104, 32, 109, 111, 114, 110, 105, 110, 103, 32, 114, 101, 115, 116, 97, 117, 114, 97, 110, 116>>),
      \* line 104: 'lunch restaurant'
      Rule(<<<<51216, 49900>>,
             <<47088, 52824>>>>,
           <<108, 117, 110, 99, 104, 32, 114, 101, 115, 116, 97, 117, 114, 97, 110, 116>>),
      \* line 105: 'dinner evening restaurant'
      Rule(<<<<51200, 45377>>,
             <<46356, 45320>>,
             <<47564, 52268>>>>,
           <<100, 105, 110, 110, 101, 114, 32, 101, 118, 101, 110, 105, 110, 103, 32, 114, 101, 115, 116, 97, 117, 114, 97, 110, 116>>),
      \* line 106: 'late night restaurant'
      Rule(<<<<50556, 49885>>,
             <<49352, 48317>>,
             <<48164>>>>,
           <<108, 97, 116, 101, 32, 110, 105, 103, 104, 116, 32, 114, 101, 115, 116, 97, 117, 114, 97, 110, 116>>),
      \* line 109: 'recommend find search'
      Rule(<<<<52628, 52380, 54644>>,
             <<52628, 52380, 54644, 51480>>,
             <<50508, 47140, 51480>>,
             <<52286, 50500, 51480>>,
             <<44160, 49353, 54644>>,
             <<52628, 52380, 48155, 44256, 49910, 50612>>>>,
           <<114, 101, 99, 111, 109, 109, 101, 110, 100, 32, 102, 105, 110, 100, 32, 115, 101, 97, 114, 99, 104>>),
      \* line 110: 'delicious tasty good popular restaurant'
      Rule(<<<<47579, 51080, 45716>>,
             <<47579, 51339, 51008>>,
             <<47579, 51665>>>>,
           <<100, 101, 108, 105, 99, 105, 111, 117, 115, 32, 116, 97, 115, 116, 121, 32, 103, 111, 111, 100, 32, 112, 111, 112, 117, 108, 97, 114, 32, 114, 101, 115, 116, 97, 117, 114, 97, 110, 116>>),
      \* line 111: 'good restaurant'
      Rule(<<<<51339, 51008>>,
             <<44316, 52270, 51008>>>>,
           <<103, 111, 111, 100, 32, 114, 101, 115, 116, 97, 117, 114, 97, 110, 116>>),
      \* line 112: 'best excellent restaurant'
      Rule(<<<<52572, 44256>>,
             <<48288, 49828, 53944>>>>,
           <<98, 101, 115, 116, 32, 101, 120, 99, 101, 108, 108, 101, 110, 116, 32, 114, 101, 115, 116, 97, 117, 114, 97, 110, 116>>),
      \* line 113: 'eat food restaurant'
      Rule(<<<<47673, 44256, 49910, 50612>>,
             <<47673, 51012>>,
             <<46300, 49884, 44256>>>>,
           <<101, 97, 116, 32, 102, 111, 111, 100, 32, 114, 101, 115, 116, 97, 117, 114, 97, 110, 116>>),
      \* line 114: 'go visit restaurant'
      Rule(<<<<44032, 44256, 49910, 50612>>,
             <<44032, 49436>>,
             <<44040, 47564, 54620>>>>,
           <<103, 111, 32, 118, 105, 115, 105, 116, 32, 114, 101, 115, 116, 97, 117, 114, 97, 110, 116>>),
      \* line 117: 'family kids children friendly restaurant'
      Rule(<<<<44032, 51313>>,
             <<50500, 51060>>,
             <<50612, 47536, 51060>>,
             <<53412, 51592>>>>,
           <<102, 97, 109, 105, 108, 121, 32, 107, 105, 100, 115, 32, 99, 104, 105, 108, 100, 114, 101, 110, 32, 102, 114, 105, 101, 110, 100, 108, 121, 32, 114, 101, 115, 116, 97, 117, 114, 97, 110, 116>>),
      \* line 118: 'romantic date couple restaurant'
      Rule(<<<<45936, 51060, 53944>>,
             <<47196, 47592, 54001>>,
             <<52964, 54540>>>>,
           <<114, 111, 109, 97, 110, 116, 105, 99, 32, 100, 97, 116, 101, 32, 99, 111, 117, 112, 108, 101, 32, 114, 101, 115, 116, 97, 117, 114, 97, 110, 116>>),
      \* line 119: 'quiet peaceful restaurant'
      Rule(<<<<51312, 50857>>,
             <<51221, 51201>>,
             <<52264, 48516>>>>,
           <<113, 117, 105, 101, 116, 32, 112, 101, 97, 99, 101, 102, 117, 108, 32, 114, 101, 115, 116, 97, 117, 114, 97, 110, 116>>),
      \* line 120: 'atmosphere ambiance mood restaurant'
      Rule(<<<<48516, 50948, 44592>>,
             <<47924, 46300>>,
             <<44048, 49457>>>>,
           <<97, 116, 109, 111, 115, 112, 104, 101, 114, 101, 32, 97, 109, 98, 105, 97, 110, 99, 101, 32, 109, 111, 111, 100, 32, 114, 101, 115, 116, 97, 117, 114, 97, 110, 116>>),
      \* line 121: 'cheap affordable budget restaurant'
      Rule(<<<<51200, 47156>>,
             <<49912>>,
             <<44032, 49457, 48708>>,
             <<44032, 44201>>>>,
           <<99, 104, 101, 97, 112, 32, 97, 102, 102, 111, 114, 100, 97, 98, 108, 101, 32, 98, 117, 100, 103, 101, 116, 32, 114, 101, 115, 116, 97, 117, 114, 97, 110, 116>>),
      \* line 122: 'expensive premium upscale fine dining restaurant'
      Rule(<<<<44256, 44553>>,
             <<48708, 49916>>,
             <<54532, 47532, 48120, 50628>>,
             <<47085, 49492, 47532>>>>,
           <<101, 120, 112, 101, 110, 115, 105, 118, 101, 32, 112, 114, 101, 109, 105, 117, 109, 32, 117, 112, 115, 99, 97, 108, 101, 32, 102, 105, 110, 101, 32, 100, 105, 110, 105, 110, 103, 32, 114, 101, 115, 116, 97, 117, 114, 97, 110, 116>>)

    >>

\* translated_parts stopping at the first rule whose pattern is found
translated_parts_first_match(text) ==
    LET matching == SelectSeq(KOREAN_FOOD_PATTERNS,
                              LAMBDA rule : re_search(rule.pattern, text))
    IN  IF matching = <<>> THEN <<>> ELSE <<matching[1].english_translation>>

\* lines 125-133: the translations of the rules whose pattern is found in text
translated_parts(text) ==
    LET matching == SelectSeq(KOREAN_FOOD_PATTERNS,
                              LAMBDA rule : re_search(rule.pattern, text))
    IN  [i \in 1..Len(matching) |-> matching[i].english_translation]

\* line 138: set(' '.join(translated_parts).split())
unique_translations(text) == Range(Split(Join(translated_parts(text), <<32>>)))

\* _pattern_based_translation returning the translations alone, without the
\* original text in front
pattern_translation_without_text(text) ==
    IF translated_parts(text) = <<>> THEN {text}
    ELSE {Join(order, <<32>>) : order \in Orderings(unique_translations(text))}

\* _pattern_based_translation joining translated_parts as they are, without
\* the set() that removes repeated tokens
pattern_translation_without_set(text) ==
    IF translated_parts(text) = <<>> THEN {text}
    ELSE {text \o <<32>> \o Join(translated_parts(text), <<32>>)}

\* TranslationService._pattern_based_translation(text): the values the call
\* can return; list(set(...)) lists the tokens in an order that depends on
\* the interpreter's string hashing, so every order is possible
_pattern_based_translation(text) ==
    IF translated_parts(text) = <<>> THEN {text}
    ELSE {text \o <<32>> \o Join(order, <<32>>) :
              order \in Orderings(unique_translations(text))}

----------------------------------------------------------------------------
(* translation_service.py: the service and translate_korean_query *)

\* what the translation pipeline does when it is called: it raises, returns
\* an empty list, or returns [{'translation_text': text}]
ReplyRaises == [kind |-> "raise", text |-> <<>>]

ReplyEmpty == [kind |-> "empty", text |-> <<>>]

ReplyText(t) == [kind |-> "text", text |-> t]

\* a call's outcome: the value returned or the exception raised, and the
\* capabilities the call used, in order
Outcome(result, used) == [result |-> result, log |-> used]

\* translate_korean_to_english letting an exception of the translator out
\* instead of falling back to the patterns
translate_to_english_without_except(korean_text, tr, reply) ==
    IF korean_text = <<>> \/ IsBlank(korean_text)
    THEN {Outcome(Return(korean_text), <<>>)}
    ELSE IF tr = "loaded" /\ reply.kind = "text"
    THEN {Outcome(Return(reply.text), <<"translator">>)}
    ELSE IF tr = "loaded" /\ reply.kind = "raise"
    THEN {Outcome(Raise(<<>>), <<"translator">>)}
    ELSE {Outcome(Return(t), (IF tr = "loaded" THEN <<"translator">> ELSE <<>>)
                              \o <<"pattern">>) :
              t \in _pattern_based_translation(korean_text)}

\* TranslationService.translate_korean_to_english(korean_text), for a service
\* whose translator is tr ("loaded" or "none") and answers with reply
translate_korean_to_english(korean_text, tr, reply) ==
    IF korean_text = <<>> \/ IsBlank(korean_text)
    THEN {Outcome(Return(korean_text), <<>>)}
    ELSE IF tr = "loaded" /\ reply.kind = "text"
    THEN {Outcome(Return(reply.text), <<"translator">>)}
    ELSE {Outcome(Return(t), (IF tr = "loaded" THEN <<"translator">> ELSE <<>>)
                              \o <<"pattern">>) :
              t \in _pattern_based_translation(korean_text)}

\* get_translation_service(): the translator of the service the call gets.
\* "unset" stands for _translation_service being None: the service is then
\* constructed, and _initialize_translator either loads the model or catches
\* the failure and leaves translator None
get_translation_service(tr) ==
    IF tr = "unset" THEN {"none", "loaded"} ELSE {tr}

\* translate_korean_query translating every query, Korean or not
translate_query_without_language_test(q, tr, reply) ==
    IF q.tag # "val" THEN {Outcome(Raise(<<>>), <<>>)}
    ELSE translate_korean_to_english(q.v, tr, reply)

\* translate_korean_query(query) on a service whose translator is tr; a query
\* that is not a str makes re.search raise
translate_korean_query(q, tr, reply) ==
    IF q.tag # "val" THEN {Outcome(Raise(<<>>), <<>>)}
    ELSE IF is_korean_text(q.v) THEN translate_korean_to_english(q.v, tr, reply)
    ELSE {Outcome(Return(q.v), <<>>)}

----------------------------------------------------------------------------
(* SpecTranslate: calls of translate_korean_query, one after another, on the
   process-wide translation service *)

\* ""
EmptyText == <<>>

\* " "
BlankText == <<32>>

\* "Korean BBQ"
KoreanBBQ == <<75, 111, 114, 101, 97, 110, 32, 66, 66, 81>>

\* "음식": Korean, matched by no rule
Eumsik == <<51020, 49885>>

\* "피자"
Pizza == <<54588, 51088>>

\* "추천해줘"
Recommend == <<52628, 52380, 54644, 51480>>

\* "피자 추천해줘"
PizzaRecommend == <<54588, 51088, 32, 52628, 52380, 54644, 51480>>

\* "bbq 음식": Korean text with a Latin keyword in lower case
BbqEumsik == <<98, 98, 113, 32, 51020, 49885>>

TextQueries ==
    {EmptyText, BlankText, KoreanBBQ, Eumsik, Pizza, Recommend,
     PizzaRecommend, BbqEumsik}

\* "Recommend pizza"
RecommendPizzaEn ==
    <<82, 101, 99, 111, 109, 109, 101, 110, 100, 32, 112, 105, 122, 122, 97>>

ModelReplies == {ReplyRaises, ReplyEmpty, ReplyText(RecommendPizzaEn), ReplyText(<<>>)}

InitTranslate ==
    /\ pc = "translate_idle"
    /\ translator = "unset"
    /\ query = Idle
    /\ model_reply = Idle
    /\ enhanced_query = Idle
    /\ log = <<>>
    /\ filters = Idle
    /\ limit = Idle
    /\ search_results = Idle
    /\ filtered_results = Idle
    /\ results = Idle
    /\ query_embedding = Idle
    /\ index_queries = Idle
    /\ user_message = Idle
    /\ search_service = Idle
    /\ restaurants = Idle
    /\ response = Idle
    /\ location_arg = Idle
    /\ callers = Idle
    /\ instances = Idle
    /\ constructed = Idle
    /\ sessions = Idle
    /\ http_log = Idle
    /\ agent_calls = Idle

\* a caller passes a query; model_reply is what the translation pipeline
\* would answer during this call
CallTranslate ==
    /\ pc = "translate_idle"
    /\ \E q \in TextQueries : query' = Val(q)
    /\ model_reply' \in ModelReplies
    /\ enhanced_query' = Idle
    /\ log' = <<>>
    /\ pc' = "translate_call"
    /\ UNCHANGED <<location_arg, service_vars, server_vars>>
    /\ UNCHANGED agent_vars
    /\ UNCHANGED <<translator, filters, limit, query_embedding, index_queries,
                   search_results, filtered_results, results>>

\* translate_korean_query(query) runs to its end
TranslateKoreanQuery ==
    /\ pc = "translate_call"
    /\ \E tr \in get_translation_service(translator) :
          /\ translator' = tr
          /\ \E o \in translate_korean_query(query, tr, model_reply) :
                /\ enhanced_query' = o.result
                /\ log' = o.log
    /\ pc' = "translate_done"
    /\ UNCHANGED <<location_arg, service_vars, server_vars>>
    /\ UNCHANGED agent_vars
    /\ UNCHANGED <<query, model_reply, filters, limit, query_embedding,
                   index_queries, search_results, filtered_results, results>>

\* the caller takes the result
ReturnTranslate ==
    /\ pc = "translate_done"
    /\ pc' = "translate_idle"
    /\ query' = Idle
    /\ model_reply' = Idle
    /\ enhanced_query' = Idle
    /\ log' = <<>>
    /\ UNCHANGED <<location_arg, service_vars, server_vars>>
    /\ UNCHANGED agent_vars
    /\ UNCHANGED <<translator, filters, limit, query_embedding, index_queries,
                   search_results, filtered_results, results>>

NextTranslate == CallTranslate \/ TranslateKoreanQuery \/ ReturnTranslate

SpecTranslate == InitTranslate /\ [][NextTranslate]_vars

----------------------------------------------------------------------------
(* SpecPattern: _pattern_based_translation on every text of TextQueries *)

InitPattern ==
    /\ pc = "pattern_call"
    /\ query \in TextQueries
    /\ enhanced_query = Idle
    /\ translator = Idle
    /\ model_reply = Idle
    /\ log = Idle
    /\ filters = Idle
    /\ limit = Idle
    /\ search_results = Idle
    /\ filtered_results = Idle
    /\ results = Idle
    /\ query_embedding = Idle
    /\ index_queries = Idle
    /\ user_message = Idle
    /\ search_service = Idle
    /\ restaurants = Idle
    /\ response = Idle
    /\ location_arg = Idle
    /\ callers = Idle
    /\ instances = Idle
    /\ constructed = Idle
    /\ sessions = Idle
    /\ http_log = Idle
    /\ agent_calls = Idle

PatternBasedTranslation ==
    /\ pc = "pattern_call"
    /\ enhanced_query' \in _pattern_based_translation(query)
    /\ pc' = "pattern_done"
    /\ UNCHANGED <<location_arg, service_vars, server_vars>>
    /\ UNCHANGED agent_vars
    /\ UNCHANGED <<query, translator, model_reply, log, filters, limit,
                   query_embedding, index_queries, search_results,
                   filtered_results, results>>

NextPattern == PatternBasedTranslation

SpecPattern == InitPattern /\ [][NextPattern]_vars

----------------------------------------------------------------------------
(* Properties of translate_korean_query (checked under SpecTranslate) *)

TranslateDone == pc = "translate_done"

\* the call returned what the model-backed translator produced
ModelAnswered ==
    /\ TranslateDone
    /\ is_korean_text(query.v)
    /\ translator = "loaded"
    /\ model_reply.kind = "text"

C8_NonKoreanUnchanged ==
    (TranslateDone /\ ~is_korean_text(query.v)) =>
        /\ enhanced_query = Return(query.v)
        /\ log = <<>>

\* "Korean BBQ" passed to a service whose translator is loaded and would
\* answer, and whose pattern table has a rule for BBQ
C8_Witness ==
    /\ TranslateDone
    /\ query = Val(KoreanBBQ)
    /\ translator = "loaded"
    /\ model_reply = ReplyText(RecommendPizzaEn)
    /\ translated_parts(KoreanBBQ) # <<>>
    /\ enhanced_query = Return(KoreanBBQ)

\* the rules whose pattern is found in text
MatchingRules(text) ==
    {i \in 1..Len(KOREAN_FOOD_PATTERNS) :
        re_search(KOREAN_FOOD_PATTERNS[i].pattern, text)}

\* the white-space separated tokens of the translations of the rules in matching
ExpansionTokens(matching) ==
    UNION {Range(Split(KOREAN_FOOD_PATTERNS[i].english_translation)) :
              i \in matching}

\* out is text followed by one space and the tokens of the matching rules,
\* joined by single spaces, each token once, in some order; or text itself
\* when no rule matches
IsPatternExpansion(text, out) ==
    LET matching == MatchingRules(text)
        expected == ExpansionTokens(matching)
        rest == SubSeq(out, Len(text) + 2, Len(out))
        tokens == Split(rest)
    IN  IF matching = {}
        THEN out = text
        ELSE /\ out = text \o <<32>> \o rest
             /\ rest = Join(tokens, <<32>>)
             /\ Range(tokens) = expected
             /\ Len(tokens) = Cardinality(expected)

\* the translator gave nothing: it is not loaded, or its call raised or
\* returned an empty result
ModelFailed == translator = "none" \/ model_reply.kind \in {"raise", "empty"}

\* C9: translate_korean_query never raises, and when the translation model is
\* not loaded, or raises or returns an empty result when called, a Korean
\* query gets its pattern-table expansion.
C9_FailsOpenToPatterns ==
    TranslateDone =>
        /\ ~enhanced_query.raised
        /\ (ModelFailed /\ is_korean_text(query.v)) =>
              /\ IsPatternExpansion(query.v, enhanced_query.value)
              /\ log # <<>> /\ log[Len(log)] = "pattern"

\* the translator was called, raised, and the patterns expanded the query
C9_Witness ==
    /\ TranslateDone
    /\ query = Val(Pizza)
    /\ translator = "loaded"
    /\ model_reply = ReplyRaises
    /\ log = <<"translator", "pattern">>
    /\ ~enhanced_query.raised
    /\ enhanced_query.value # query.v

----------------------------------------------------------------------------
(* Properties of _pattern_based_translation (checked under SpecPattern) *)

PatternDone == pc = "pattern_done"

----------------------------------------------------------------------------
(* Spec: one call of RestaurantSearchService.search_restaurants, step by
   step (restaurant_search.py lines 112-152) *)

\* the query arguments tried; None stands for an argument that is not a str
SearchQueries == {Null(<<>>), Val(EmptyText), Val(KoreanBBQ), Val(Eumsik)}

\* the filters arguments tried: None, or a SearchFilters with at most one
\* field set
SearchFilterArgs ==
    {None(OnlyMinStars(0))} \cup {Val(f) : f \in {g \in FilterArgs : SetCount(g) <= 1}}

\* the lists client.search can return: points of the index, none twice
IndexAnswers ==
    {rs \in SeqsUpTo(IndexPoints, MaxResults) :
        \A i, j \in 1..Len(rs) : i # j => rs[i] # rs[j]}

\* the vector model.encode computes for a text; the model is deterministic,
\* and the vector is kept opaque
Embedding(text) == [embedding_of |-> text]

\* restaurant_data = result.payload.copy() with similarity_score added
RestaurantData(point) ==
    [k \in DOMAIN point.payload \cup {"similarity_score"} |->
        IF k = "similarity_score" THEN Val(point.score) ELSE point.payload[k]]

\* s[:n] for n >= 0
Prefix(s, n) == SubSeq(s, 1, IF n < Len(s) THEN n ELSE Len(s))

Init ==
    /\ pc = "translate"
    /\ query \in SearchQueries
    /\ filters \in SearchFilterArgs
    /\ limit \in 1..MaxLimit
    /\ translator = "unset"
    /\ model_reply = Idle
    /\ enhanced_query = Idle
    /\ query_embedding = Idle
    /\ index_queries = <<>>
    /\ search_results = Idle
    /\ filtered_results = Idle
    /\ results = Idle
    /\ log = <<>>
    /\ user_message = Idle
    /\ search_service = Idle
    /\ restaurants = Idle
    /\ response = Idle
    /\ location_arg = Idle
    /\ callers = Idle
    /\ instances = Idle
    /\ constructed = Idle
    /\ sessions = Idle
    /\ http_log = Idle
    /\ agent_calls = Idle

\* line 120: enhanced_query = translate_korean_query(query)
Translate ==
    /\ pc = "translate"
    /\ \E tr \in get_translation_service(translator) :
          /\ translator' = tr
          /\ \E reply \in ModelReplies :
                /\ model_reply' = reply
                /\ \E o \in translate_korean_query(query, tr, reply) :
                      \* a reply is drawn only when the translator is called
                      /\ "translator" \notin Range(o.log) => reply = ReplyEmpty
                      /\ IF o.result.raised
                         THEN /\ pc' = "except"
                              /\ log' = log \o <<"translate raised">>
                              /\ UNCHANGED enhanced_query
                         ELSE /\ pc' = "encode"
                              /\ log' = log \o <<"translate">>
                              /\ enhanced_query' = o.result.value
    /\ UNCHANGED <<location_arg, service_vars, server_vars>>
    /\ UNCHANGED agent_vars
    /\ UNCHANGED <<query, filters, limit, query_embedding, index_queries,
                   search_results, filtered_results, results>>

\* Encode embedding the query as passed in, not the translated one
EncodeRawQuery ==
    /\ pc = "encode"
    /\ query_embedding' = Embedding(query.v)
    /\ log' = log \o <<"encode">>
    /\ pc' = "search"
    /\ UNCHANGED <<location_arg, service_vars, server_vars>>
    /\ UNCHANGED agent_vars
    /\ UNCHANGED <<query, filters, limit, translator, model_reply,
                   enhanced_query, index_queries, search_results,
                   filtered_results, results>>

\* line 123: self.model.encode([enhanced_query]) returns the embedding
Encode ==
    /\ pc = "encode"
    /\ query_embedding' = Embedding(enhanced_query)
    /\ log' = log \o <<"encode">>
    /\ pc' = "search"
    /\ UNCHANGED <<location_arg, service_vars, server_vars>>
    /\ UNCHANGED agent_vars
    /\ UNCHANGED <<query, filters, limit, translator, model_reply,
                   enhanced_query, index_queries, search_results,
                   filtered_results, results>>

\* line 123: self.model.encode raises
EncodeRaises ==
    /\ pc = "encode"
    /\ log' = log \o <<"encode raised">>
    /\ pc' = "except"
    /\ UNCHANGED <<location_arg, service_vars, server_vars>>
    /\ UNCHANGED agent_vars
    /\ UNCHANGED <<query, filters, limit, translator, model_reply,
                   enhanced_query, query_embedding, index_queries,
                   search_results, filtered_results, results>>

\* Search asking the index for limit points, then for limit * 2 more when
\* fewer than limit came back
SearchAgainWhenShort ==
    /\ pc = "search"
    /\ \E first \in IndexAnswers :
          IF Len(first) < limit
          THEN /\ index_queries' = index_queries \o
                     <<[query_vector |-> query_embedding, limit |-> limit],
                       [query_vector |-> query_embedding, limit |-> limit * 2]>>
               /\ search_results' \in IndexAnswers
          ELSE /\ index_queries' = Append(index_queries,
                     [query_vector |-> query_embedding, limit |-> limit])
               /\ search_results' = first
    /\ log' = log \o <<"search">>
    /\ pc' = "filter"
    /\ UNCHANGED <<location_arg, service_vars, server_vars>>
    /\ UNCHANGED agent_vars
    /\ UNCHANGED <<query, filters, limit, translator, model_reply,
                   enhanced_query, query_embedding, filtered_results, results>>

\* lines 126-130: self.client.search(..., limit=limit * 2) returns a list;
\* the in-memory client of line 104 holds no collection and only raises
Search ==
    /\ pc = "search"
    /\ search_service # "memory"
    /\ index_queries' = Append(index_queries,
                               [query_vector |-> query_embedding, limit |-> limit * 2])
    /\ search_results' \in IndexAnswers
    /\ log' = log \o <<"search">>
    /\ pc' = "filter"
    /\ UNCHANGED <<location_arg, service_vars, server_vars>>
    /\ UNCHANGED agent_vars
    /\ UNCHANGED <<query, filters, limit, translator, model_reply,
                   enhanced_query, query_embedding, filtered_results, results>>

\* lines 126-130: self.client.search raises (server unreachable, collection
\* missing)
SearchRaises ==
    /\ pc = "search"
    /\ index_queries' = Append(index_queries,
                               [query_vector |-> query_embedding, limit |-> limit * 2])
    /\ log' = log \o <<"search raised">>
    /\ pc' = "except"
    /\ UNCHANGED <<location_arg, service_vars, server_vars>>
    /\ UNCHANGED agent_vars
    /\ UNCHANGED <<query, filters, limit, translator, model_reply,
                   enhanced_query, query_embedding, search_results,
                   filtered_results, results>>

\* lines 133-135: the filter step
Filter ==
    /\ pc = "filter"
    /\ IF filters.tag = "none"
       THEN /\ filtered_results' = search_results
            /\ log' = log
            /\ pc' = "format"
       ELSE LET o == _apply_manual_filters(search_results, filters.v)
            IN  IF o.raised
                THEN /\ pc' = "except"
                     /\ log' = log \o <<"filter raised">>
                     /\ UNCHANGED filtered_results
                ELSE /\ pc' = "format"
                     /\ log' = log \o <<"filter">>
                     /\ filtered_results' = o.value
    /\ UNCHANGED <<location_arg, service_vars, server_vars>>
    /\ UNCHANGED agent_vars
    /\ UNCHANGED <<query, filters, limit, translator, model_reply,
                   enhanced_query, query_embedding, index_queries,
                   search_results, results>>

\* Format returning every filtered result, without the [:limit]
FormatWithoutLimit ==
    /\ pc = "format"
    /\ results' = Return([i \in 1..Len(filtered_results) |->
                             RestaurantData(filtered_results[i])])
    /\ log' = log \o <<"truncate">>
    /\ pc' = "done"
    /\ UNCHANGED <<location_arg, service_vars, server_vars>>
    /\ UNCHANGED agent_vars
    /\ UNCHANGED <<query, filters, limit, translator, model_reply,
                   enhanced_query, query_embedding, index_queries,
                   search_results, filtered_results>>

\* Format writing similarity_score into the payloads the index returned,
\* without result.payload.copy()
FormatWithoutCopy ==
    /\ pc = "format"
    /\ LET kept == Prefix(filtered_results, limit)
           scored(point) == [point EXCEPT !.payload = RestaurantData(point)]
       IN  /\ results' = Return([i \in 1..Len(kept) |-> RestaurantData(kept[i])])
           /\ search_results' =
                 [i \in 1..Len(search_results) |->
                     IF \E k \in 1..Len(kept) : kept[k] = search_results[i]
                     THEN scored(search_results[i]) ELSE search_results[i]]
    /\ log' = log \o <<"truncate">>
    /\ pc' = "done"
    /\ UNCHANGED <<location_arg, service_vars, server_vars>>
    /\ UNCHANGED agent_vars
    /\ UNCHANGED <<query, filters, limit, translator, model_reply,
                   enhanced_query, query_embedding, index_queries,
                   filtered_results>>

\* lines 138-144: the first limit results, each as its payload with the score
Format ==
    /\ pc = "format"
    /\ LET kept == Prefix(filtered_results, limit)
       IN  results' = Return([i \in 1..Len(kept) |-> RestaurantData(kept[i])])
    /\ log' = log \o <<"truncate">>
    /\ pc' = "done"
    /\ UNCHANGED <<location_arg, service_vars, server_vars>>
    /\ UNCHANGED agent_vars
    /\ UNCHANGED <<query, filters, limit, translator, model_reply,
                   enhanced_query, query_embedding, index_queries,
                   search_results, filtered_results>>

\* Except letting the exception out of search_restaurants
ExceptReraises ==
    /\ pc = "except"
    /\ results' = Raise(<<>>)
    /\ pc' = "done"
    /\ UNCHANGED <<location_arg, service_vars, server_vars>>
    /\ UNCHANGED agent_vars
    /\ UNCHANGED <<query, filters, limit, translator, model_reply,
                   enhanced_query, query_embedding, index_queries,
                   search_results, filtered_results, log>>

\* lines 146-152: except Exception: log it and return []
Except ==
    /\ pc = "except"
    /\ results' = Return(<<>>)
    /\ pc' = "done"
    /\ UNCHANGED <<location_arg, service_vars, server_vars>>
    /\ UNCHANGED agent_vars
    /\ UNCHANGED <<query, filters, limit, translator, model_reply,
                   enhanced_query, query_embedding, index_queries,
                   search_results, filtered_results, log>>

Next ==
    \/ Translate
    \/ Encode
    \/ EncodeRaises
    \/ Search
    \/ SearchRaises
    \/ Filter
    \/ Format
    \/ Except

Spec == Init /\ [][Next]_vars

----------------------------------------------------------------------------
(* Properties of search_restaurants (checked under Spec) *)

SearchDone == pc = "done"

\* some step of the call raised
SomeStepRaised ==
    \E i \in 1..Len(log) :
        log[i] \in {"translate raised", "encode raised", "search raised",
                    "filter raised"}

\* C1: search_restaurants raises nothing, and returns the empty list whenever
\* the translation, the embedding call, the index call or the filter step
\* raised.
C1_FailureGivesEmptyList ==
    SearchDone =>
        /\ ~results.raised
        /\ SomeStepRaised => results.value = <<>>

\* the filter step raised on a list the index returned, and the call ended
C1_Witness ==
    /\ SearchDone
    /\ log = <<"translate", "encode", "search", "filter raised">>
    /\ Len(search_results) > 0
    /\ results = Return(<<>>)

\* C2: the list search_restaurants returns has at most limit elements,
\* whatever the index returned.
C2_AtMostLimitResults ==
    SearchDone => Len(results.value) <= limit

\* more candidates than limit came back and passed the filters
C2_Witness ==
    /\ SearchDone
    /\ Len(search_results) > limit * 2
    /\ Len(filtered_results) > limit
    /\ Len(results.value) = limit

----------------------------------------------------------------------------
(* The pizza and recommend scenario (checked under SpecTranslate) *)

\* "pizza restaurant", the translation of the rule of line 88
PizzaRestaurantEn ==
    <<112, 105, 122, 122, 97, 32, 114, 101, 115, 116, 97, 117, 114, 97, 110, 116>>

\* "recommend find search", the translation of the rule of line 109
RecommendFindSearchEn ==
    <<114, 101, 99, 111, 109, 109, 101, 110, 100, 32, 102, 105, 110, 100, 32,
      115, 101, 97, 114, 99, 104>>

\* "pizza"
PizzaToken == <<112, 105, 122, 122, 97>>

\* "recommend"
RecommendToken == <<114, 101, 99, 111, 109, 109, 101, 110, 100>>

\* the rule with the given translation matches text
RuleMatches(english_translation, text) ==
    \E i \in 1..Len(KOREAN_FOOD_PATTERNS) :
        /\ KOREAN_FOOD_PATTERNS[i].english_translation = english_translation
        /\ re_search(KOREAN_FOOD_PATTERNS[i].pattern, text)

\* text matches the pizza rule and the recommend rule
MatchesPizzaAndRecommend(text) ==
    /\ RuleMatches(PizzaRestaurantEn, text)
    /\ RuleMatches(RecommendFindSearchEn, text)

\* out is text followed by white space and tokens among which are pizza and
\* recommend
HasPizzaAndRecommendAppended(text, out) ==
    /\ StartsWith(out, text)
    /\ Len(out) > Len(text)
    /\ IsSpace(out[Len(text) + 1])
    /\ {PizzaToken, RecommendToken} \subseteq
          Range(Split(SubSeq(out, Len(text) + 1, Len(out))))

----------------------------------------------------------------------------
(* Further properties of search_restaurants (checked under Spec) *)

\* C12: a call with an empty query (or one empty after trimming) returns []
\* and does not query the vector index.
C12_EmptyQueryGivesEmptyList ==
    (SearchDone /\ query.tag = "val" /\ IsBlank(query.v)) =>
        /\ results = Return(<<>>)
        /\ index_queries = <<>>

\* the place of a step in the order normalize, embed, retrieve, filter,
\* truncate; a step that raised has the place of that step
StepRank(step) ==
    CASE step \in {"translate", "translate raised"} -> 1
      [] step \in {"encode", "encode raised"} -> 2
      [] step \in {"search", "search raised"} -> 3
      [] step \in {"filter", "filter raised"} -> 4
      [] step = "truncate" -> 5

StepRaised(step) ==
    step \in {"translate raised", "encode raised", "search raised", "filter raised"}

\* the steps of steps come in order, none is left out except the filter step
\* when filters is None, and a step that raised is the last one
StepsInOrder(steps) ==
    /\ steps # <<>> => StepRank(steps[1]) = 1
    /\ \A i \in 1..(Len(steps) - 1) :
          /\ ~StepRaised(steps[i])
          /\ \/ StepRank(steps[i + 1]) = StepRank(steps[i]) + 1
             \/ /\ filters.tag = "none"
                /\ steps[i] = "search"
                /\ steps[i + 1] = "truncate"

\* C19: the steps of one call run in the order normalize, embed, retrieve,
\* filter, truncate; the embedding is that of the normalized query; the index
\* is queried only after the embedding was computed, and with it; the filter
\* sees only retrieved candidates; after a step that failed no step runs.
C19_StepsRunInOrder ==
    /\ StepsInOrder(log)
    /\ "translate" \in Range(log) =>
          \E o \in translate_korean_query(query, translator, model_reply) :
              o.result = Return(enhanced_query)
    /\ "encode" \in Range(log) => query_embedding = Embedding(enhanced_query)
    /\ index_queries # <<>> =>
          /\ "encode" \in Range(log)
          /\ \A i \in 1..Len(index_queries) :
                index_queries[i].query_vector = query_embedding
    /\ "search" \notin Range(log) /\ "search raised" \notin Range(log) =>
          index_queries = <<>>
    /\ "filter" \in Range(log) =>
          /\ "search" \in Range(log)
          /\ IsSubsequence(filtered_results, search_results)
    /\ "truncate" \in Range(log) =>
          /\ "search" \in Range(log)
          /\ Len(results.value) <= Len(filtered_results)
    /\ (SearchDone /\ SomeStepRaised) => "truncate" \notin Range(log)

\* a Korean query that the translator rewrote went through all five steps
C19_Witness ==
    /\ SearchDone
    /\ log = <<"translate", "encode", "search", "filter", "truncate">>
    /\ query = Val(Eumsik)
    /\ enhanced_query = RecommendPizzaEn
    /\ query_embedding = Embedding(RecommendPizzaEn)
    /\ Len(filtered_results) < Len(search_results)

\* the index has been queried
IndexQueried == "search" \in Range(log) \/ "search raised" \in Range(log)

\* C20: a call that reaches the retrieval step queries the index exactly
\* once, asking for 2 * limit points, and never again or for more, however
\* few candidates pass the filters.
C20_OneIndexQueryOfTwiceLimit ==
    /\ Len(index_queries) <= 1
    /\ IndexQueried =>
          /\ Len(index_queries) = 1
          /\ index_queries[1].limit = 2 * limit

\* the filters left fewer than limit candidates, and the call ended after
\* its single query
C20_Witness ==
    /\ SearchDone
    /\ log = <<"translate", "encode", "search", "filter", "truncate">>
    /\ Len(filtered_results) < limit
    /\ Len(results.value) < limit
    /\ index_queries = <<[query_vector |-> query_embedding, limit |-> 2 * limit]>>

----------------------------------------------------------------------------
(* restaurant_search.py: format_restaurant_response (lines 297-329) *)

\* line 300: the text shown when no restaurant was found
NoMatchesText ==
    <<51396, 49569, 54633, 45768, 45796, 46, 32, 51312, 44148, 50640, 32,
      47582, 45716, 32, 47112, 49828, 53664, 46993, 51012, 32, 52286, 51012,
      32, 49688, 32, 50630, 49845, 45768, 45796, 46>>

\* line 307: the intro text up to the number of restaurants
IntroHead ==
    <<52628, 52380, 32, 47112, 49828, 53664, 46993, 32>>

\* line 307: the intro text after the number of restaurants
IntroTail ==
    <<44275, 51012, 32, 52286, 50520, 49845, 45768, 45796, 58>>

\* line 318: between the categories and the stars
StarsSeparator ==
    <<32, 183, 32, 11088>>

\* line 318: between the stars and the review count
ReviewOpen ==
    <<32, 40>>

\* line 318: after the review count
ReviewClose ==
    <<44060, 32, 47532, 48624, 41>>

\* line 320: before the address
AddressSeparator ==
    <<32, 183, 32>>

\* lines 312 and 320: ', '
CommaSpace ==
    <<44, 32>>

\* str(None)
NoneText ==
    <<78, 111, 110, 101>>


\* the text of a str found where a number or a list is expected: "n/a"
BadText == <<110, 47, 97>>

\* the characters of the category names the payloads hold
CategoryText(name) ==
    CASE name = "Italian" -> <<73, 116, 97, 108, 105, 97, 110>>
      [] name = "Pizza" -> <<80, 105, 122, 122, 97>>
      [] name = "Chinese" -> <<67, 104, 105, 110, 101, 115, 101>>
      [] name = "Thai" -> <<84, 104, 97, 105>>

\* str(n) for an int n >= 0
RECURSIVE Decimal(_)
Decimal(n) ==
    IF n < 10 THEN <<48 + n>>
    ELSE Decimal(n \div 10) \o <<48 + (n % 10)>>

\* str(x) for a float x of half_stars / 2: "4.5", "5.0"
FloatText(half_stars) ==
    Decimal(half_stars \div 2) \o <<46>> \o
        (IF half_stars % 2 = 1 THEN <<53>> ELSE <<48>>)

\* a key of a restaurant dict, absent when the dict does not hold it
Field(restaurant, key) ==
    IF key \in DOMAIN restaurant THEN restaurant[key] ELSE Missing(<<>>)

\* {"type": "Message", "text": text}
Message(text) == [type |-> "Message", text |-> text]

\* {"type": "Restaurant Option", "title": ..., "id": ..., "description": ...}
RestaurantOption(title, id, description) ==
    [type |-> "Restaurant Option", title |-> title, id |-> id,
     description |-> description]

\* line 312: ', '.join(restaurant.get('categories', [])); joining None
\* raises TypeError, joining a str joins its characters
JoinCategories(categories) ==
    CASE categories.tag = "missing" -> Return(<<>>)
      [] categories.tag = "null" -> Raise(<<>>)
      [] categories.tag = "bad" ->
           Return(Join([i \in 1..Len(BadText) |-> <<BadText[i]>>], CommaSpace))
      [] categories.tag = "val" ->
           Return(Join([i \in 1..Len(categories.v) |->
                           CategoryText(categories.v[i])], CommaSpace))

\* lines 313 and 318: f"{stars}" for stars = restaurant.get('stars', 0)
StarsText(stars) ==
    CASE stars.tag = "missing" -> Decimal(0)
      [] stars.tag = "null" -> NoneText
      [] stars.tag = "bad" -> BadText
      [] stars.tag = "val" -> FloatText(stars.v)

\* lines 314 and 318: f"{review_count}" for
\* review_count = restaurant.get('review_count', 0)
ReviewCountText(review_count) ==
    CASE review_count.tag = "missing" -> Decimal(0)
      [] review_count.tag = "null" -> NoneText
      [] review_count.tag = "bad" -> BadText
      [] review_count.tag = "val" -> Decimal(review_count.v)

\* line 318: f"{categories} · ⭐{stars} ({review_count}개 리뷰)"
RatingPart(categories, restaurant) ==
    categories \o StarsSeparator \o StarsText(Field(restaurant, "stars")) \o
    ReviewOpen \o ReviewCountText(Field(restaurant, "review_count")) \o
    ReviewClose

\* description += f" · {address}, {city}" whenever address is non-empty,
\* whatever city is
DescriptionWithoutCityTest(categories, restaurant) ==
    LET address == Get(Field(restaurant, "address"), <<>>)
        city == Get(Field(restaurant, "city"), <<>>)
    IN  IF TruthySeq(address)
        THEN RatingPart(categories, restaurant) \o AddressSeparator \o
             address.v \o CommaSpace \o
             (IF city.tag = "val" THEN city.v ELSE NoneText)
        ELSE RatingPart(categories, restaurant)

\* lines 315-320: the description, with the address suffix when address and
\* city are both truthy
Description(categories, restaurant) ==
    LET address == Get(Field(restaurant, "address"), <<>>)
        city == Get(Field(restaurant, "city"), <<>>)
    IN  IF TruthySeq(address) /\ TruthySeq(city)
        THEN RatingPart(categories, restaurant) \o AddressSeparator \o
             address.v \o CommaSpace \o city.v
        ELSE RatingPart(categories, restaurant)

\* lines 312-327: the item appended for one restaurant, or the TypeError
FormatOne(restaurant) ==
    LET categories == JoinCategories(Field(restaurant, "categories"))
    IN  IF categories.raised THEN Raise(<<>>)
        ELSE Return(RestaurantOption(
                 Get(Field(restaurant, "name"), <<>>),
                 Get(Field(restaurant, "restaurant_id"), <<>>),
                 Description(categories.value, restaurant)))

\* format_restaurant_response(restaurants): the returned list, or the
\* exception of the first restaurant whose categories cannot be joined
format_restaurant_response(rs) ==
    IF rs = <<>> THEN Return(<<Message(NoMatchesText)>>)
    ELSE IF \E i \in 1..Len(rs) : FormatOne(rs[i]).raised THEN Raise(<<>>)
    ELSE Return(<<Message(IntroHead \o Decimal(Len(rs)) \o IntroTail)>> \o
                [i \in 1..Len(rs) |-> FormatOne(rs[i]).value])

----------------------------------------------------------------------------
(* SpecFormat: one call of format_restaurant_response *)

\* a restaurant dict with all seven keys the formatter reads
Restaurant(name, restaurant_id, categories, stars, review_count, address, city) ==
    [name |-> name, restaurant_id |-> restaurant_id, categories |-> categories,
     stars |-> stars, review_count |-> review_count, address |-> address,
     city |-> city]

\* "Olio"
Olio == <<79, 108, 105, 111>>

\* "Wok"
Wok == <<87, 111, 107>>

\* "r1"
IdR1 == <<114, 49>>

\* "r2"
IdR2 == <<114, 50>>

\* "1 State St"
StateSt == <<49, 32, 83, 116, 97, 116, 101, 32, 83, 116>>

\* the restaurant dicts tried: complete ones, and ones in which fields are
\* absent, None or empty
RestaurantRecords ==
    { Restaurant(Val(Olio), Val(IdR1), Val(<<"Italian", "Pizza">>), Val(9),
                 Val(120), Val(StateSt), Val(SantaBarbara)),
      Restaurant(Val(Wok), Val(IdR2), Val(<<"Chinese">>), Val(10),
                 Val(7), Val(StateSt), Val(<<>>)),
      Restaurant(Val(Wok), Val(IdR2), Val(<<"Chinese">>), Val(6),
                 Val(0), Missing(<<>>), Val(Goleta)),
      Restaurant(Missing(<<>>), Missing(<<>>), Missing(<<>>), Missing(0),
                 Missing(0), Missing(<<>>), Missing(<<>>)),
      Restaurant(Val(Olio), Val(IdR1), Null(<<>>), Val(9),
                 Val(120), Val(StateSt), Val(SantaBarbara)),
      Restaurant(Null(<<>>), Null(<<>>), Val(<<>>), Null(0),
                 Null(0), Null(<<>>), Null(<<>>)),
      Restaurant(Val(Olio), Null(<<>>), Val(<<"Thai">>), Val(8),
                 Val(3), Val(StateSt), Null(<<>>)),
      Restaurant(Val(<<>>), Val(<<>>), Val(<<"Pizza">>), Val(0),
                 Val(15), Val(<<>>), Val(<<>>)) }

InitFormat ==
    /\ pc = "format_call"
    /\ restaurants \in SeqsUpTo(RestaurantRecords, MaxResults)
    /\ response = Idle
    /\ user_message = Idle
    /\ search_service = Idle
    /\ query = Idle
    /\ filters = Idle
    /\ limit = Idle
    /\ translator = Idle
    /\ model_reply = Idle
    /\ enhanced_query = Idle
    /\ query_embedding = Idle
    /\ index_queries = Idle
    /\ search_results = Idle
    /\ filtered_results = Idle
    /\ results = Idle
    /\ log = Idle
    /\ location_arg = Idle
    /\ callers = Idle
    /\ instances = Idle
    /\ constructed = Idle
    /\ sessions = Idle
    /\ http_log = Idle
    /\ agent_calls = Idle

\* lines 297-329; the function reads restaurants and writes only its own list
FormatRestaurantResponse ==
    /\ pc = "format_call"
    /\ response' = format_restaurant_response(restaurants)
    /\ pc' = "format_done"
    /\ UNCHANGED <<location_arg, service_vars, server_vars>>
    /\ UNCHANGED <<restaurants, user_message, search_service>>
    /\ UNCHANGED <<query, filters, limit, translator, model_reply,
                   enhanced_query, query_embedding, index_queries,
                   search_results, filtered_results, results, log>>

NextFormat == FormatRestaurantResponse

SpecFormat == InitFormat /\ [][NextFormat]_vars

----------------------------------------------------------------------------
(* Properties of format_restaurant_response (checked under SpecFormat) *)

FormatDone == pc = "format_done"

FormatReturned == FormatDone /\ ~response.raised

\* C13: for the empty list the response is the single no-matches message;
\* for N >= 1 restaurants it has N + 1 items: the intro message stating N,
\* then one option per restaurant in input order, with the restaurant's name
\* as title and its restaurant_id as id.
C13_OneIntroThenOneOptionEach ==
    FormatDone =>
        /\ ~response.raised
        /\ restaurants = <<>> => response.value = <<Message(NoMatchesText)>>
        /\ restaurants # <<>> =>
              /\ Len(response.value) = Len(restaurants) + 1
              /\ response.value[1] =
                    Message(IntroHead \o Decimal(Len(restaurants)) \o IntroTail)
              /\ \A i \in 1..Len(restaurants) :
                    /\ response.value[i + 1].type = "Restaurant Option"
                    /\ response.value[i + 1].title =
                          Get(Field(restaurants[i], "name"), <<>>)
                    /\ response.value[i + 1].id =
                          Get(Field(restaurants[i], "restaurant_id"), <<>>)

\* C15: format_restaurant_response returns a list for every list of
\* restaurant dicts, also when fields are absent or None.
C15_FormatNeverRaises == FormatDone => ~response.raised

\* s ends with suffix
EndsWith(s, suffix) ==
    /\ Len(suffix) <= Len(s)
    /\ SubSeq(s, Len(s) - Len(suffix) + 1, Len(s)) = suffix

\* the address and the city of a restaurant dict are both non-empty strs
HasAddressAndCity(restaurant) ==
    /\ TruthySeq(Field(restaurant, "address"))
    /\ TruthySeq(Field(restaurant, "city"))

\* " · <address>, <city>"
AddressSuffix(restaurant) ==
    AddressSeparator \o Field(restaurant, "address").v \o CommaSpace \o
    Field(restaurant, "city").v

\* C16: the description of an option ends with " · <address>, <city>" after
\* the categories, rating and review-count part iff address and city are
\* both non-empty; otherwise it is that part alone.
C16_AddressSuffixIffBothNonEmpty ==
    FormatReturned =>
        \A i \in 1..Len(restaurants) :
            LET restaurant == restaurants[i]
                description == response.value[i + 1].description
                rating == RatingPart(
                    JoinCategories(Field(restaurant, "categories")).value,
                    restaurant)
            IN  /\ HasAddressAndCity(restaurant) =>
                      description = rating \o AddressSuffix(restaurant)
                /\ ~HasAddressAndCity(restaurant) =>
                      /\ description = rating
                      /\ EndsWith(description, ReviewClose)

\* one restaurant with address and city and one with an address only
C16_Witness ==
    /\ FormatReturned
    /\ Len(restaurants) = 2
    /\ HasAddressAndCity(restaurants[1])
    /\ TruthySeq(Field(restaurants[2], "address"))
    /\ ~TruthySeq(Field(restaurants[2], "city"))
    /\ EndsWith(response.value[2].description, AddressSuffix(restaurants[1]))
    /\ EndsWith(response.value[3].description, ReviewClose)

----------------------------------------------------------------------------
(* agent.py: keyword lists and reply texts *)

\* lines 17-21: greeting_keywords, each keyword as code points
greeting_keywords ==
    <<
       <<50504, 45397>>,
       <<50504, 45397, 54616, 49464, 50836>>,
       <<50504, 45397, 54616, 49901, 45768, 44620>>,
       <<52376, 51020>>,
       <<49884, 51089>>,
       <<54764, 47196>>,
       <<104, 101, 108, 108, 111>>,
       <<104, 105>>,
       <<104, 101, 121>>,
       <<103, 111, 111, 100, 32, 109, 111, 114, 110, 105, 110, 103>>,
       <<103, 111, 111, 100, 32, 97, 102, 116, 101, 114, 110, 111, 111, 110>>,
       <<103, 111, 111, 100, 32, 101, 118, 101, 110, 105, 110, 103>>,
       <<49884, 51089, 54644>>,
       <<49884, 51089, 54624, 44172>>,
       <<46020, 50880, 47568>>,
       <<104, 101, 108, 112>>
    >>

\* line 34: search_keywords, each keyword as code points
search_keywords ==
    <<
       <<52628, 52380, 54644>>,
       <<52628, 52380, 54644, 51480>>,
       <<50508, 47140, 51480>>,
       <<52286, 50500, 51480>>,
       <<44160, 49353, 54644>>,
       <<52628, 52380, 48155, 44256, 49910, 50612>>,
       <<47673, 44256, 49910, 50612>>,
       <<114, 101, 99, 111, 109, 109, 101, 110, 100>>,
       <<102, 105, 110, 100>>,
       <<115, 101, 97, 114, 99, 104>>
    >>

\* line 35: food_keywords, each keyword as code points
food_keywords ==
    <<
       <<49885, 45817>>,
       <<47112, 49828, 53664, 46993>>,
       <<47579, 51665>>,
       <<51020, 49885>>,
       <<50836, 47532>>,
       <<52852, 54168>>,
       <<49696, 51665>>,
       <<48148>>,
       <<114, 101, 115, 116, 97, 117, 114, 97, 110, 116>>,
       <<102, 111, 111, 100>>,
       <<99, 97, 102, 101>>,
       <<98, 97, 114>>
    >>

\* line 36: cuisine_keywords, each keyword as code points
cuisine_keywords ==
    <<
       <<51060, 53448, 47532, 50500>>,
       <<51473, 44397>>,
       <<54620, 44397>>,
       <<51068, 48376>>,
       <<53468, 44397>>,
       <<54588, 51088>>,
       <<52964, 54588>>,
       <<52824, 53416>>,
       <<105, 116, 97, 108, 105, 97, 110>>,
       <<99, 104, 105, 110, 101, 115, 101>>,
       <<107, 111, 114, 101, 97, 110>>,
       <<106, 97, 112, 97, 110, 101, 115, 101>>,
       <<116, 104, 97, 105>>,
       <<112, 105, 122, 122, 97>>,
       <<99, 111, 102, 102, 101, 101>>,
       <<99, 104, 105, 99, 107, 101, 110>>
    >>

\* line 54: reservation_keywords, each keyword as code points
reservation_keywords ==
    <<
       <<50696, 50557>>,
       <<50696, 50557, 54644>>,
       <<50696, 50557, 54644, 51480>>,
       <<98, 111, 111, 107, 105, 110, 103>>,
       <<114, 101, 115, 101, 114, 118, 101>>,
       <<114, 101, 115, 101, 114, 118, 97, 116, 105, 111, 110>>
    >>

\* line 14: the reply to an empty message
EmptyGreetingText ==
    <<50504, 45397, 54616, 49464, 50836, 33, 32, 47112, 49828, 53664, 46993,
      32, 52628, 52380, 51060, 45208, 32, 50696, 50557, 51012, 32, 46020,
      50752, 46300, 47540, 32, 49688, 32, 51080, 49845, 45768, 45796, 46, 32,
      47924, 50631, 51012, 32, 46020, 50752, 46300, 47540, 44620, 50836, 63>>

\* line 27: the reply to a greeting
GreetingText ==
    <<50504, 45397, 54616, 49464, 50836, 33, 32, 51200, 45716, 32, 47112,
      49828, 53664, 46993, 32, 52628, 52380, 44284, 32, 50696, 50557, 51012,
      32, 46020, 50752, 46300, 47532, 45716, 32, 65, 73, 32, 50612, 49884,
      49828, 53556, 53944, 51077, 45768, 45796, 46, 32, 127869, 65039, 10,
      10, 45796, 51020, 44284, 32, 44057, 51008, 32, 46020, 50880, 51012, 32,
      46300, 47540, 32, 49688, 32, 51080, 49845, 45768, 45796, 58, 10, 8226,
      32, 51020, 49885, 32, 51333, 47448, 45208, 32, 48516, 50948, 44592,
      50640, 32, 46384, 47480, 32, 47112, 49828, 53664, 46993, 32, 52628,
      52380, 10, 8226, 32, 47112, 49828, 53664, 46993, 32, 50696, 50557, 32,
      44288, 47532, 10, 10, 50612, 46500, 32, 51333, 47448, 51032, 32, 51020,
      49885, 51060, 45208, 32, 47112, 49828, 53664, 46993, 51012, 32, 52286,
      44256, 32, 44228, 49888, 44032, 50836, 63>>

\* line 60: the reply to a reservation keyword
ReservationInfoText ==
    <<47112, 49828, 53664, 46993, 32, 50696, 50557, 51012, 32, 46020, 50752,
      46300, 47532, 44192, 49845, 45768, 45796, 33, 32, 45796, 51020, 32,
      51221, 48372, 47484, 32, 50508, 47140, 51452, 49464, 50836, 58, 10, 10,
      8226, 32, 50896, 54616, 49884, 45716, 32, 47112, 49828, 53664, 46993,
      32, 51060, 47492, 10, 8226, 32, 50696, 50557, 32, 45216, 51676, 50752,
      32, 49884, 44036, 10, 8226, 32, 51064, 50896, 49688, 10, 10, 50696, 58,
      32, 39, 54861, 53097, 48152, 51216, 32, 45236, 51068, 32, 51200, 45377,
      32, 55, 49884, 32, 52, 47749, 32, 50696, 50557, 54644, 51480, 39>>

\* line 63: "홍콩반점"
HongKongBanjeom ==
    <<54861, 53097, 48152, 51216>>

\* line 65: "222"
Id222 ==
    <<50, 50, 50>>

\* line 65: "생성"
StatusCreated ==
    <<49373, 49457>>

\* line 66
AskDateText ==
    <<54861, 53097, 48152, 51216, 32, 50696, 50557, 51012, 32, 46020, 50752,
      46300, 47532, 44192, 49845, 45768, 45796, 46, 32, 50696, 50557, 32,
      45216, 51676, 50752, 32, 49884, 44036, 44, 32, 44536, 47532, 44256, 32,
      51064, 50896, 49688, 47484, 32, 50508, 47140, 51452, 49464, 50836, 46>>

\* line 68: "모레"
More ==
    <<47784, 47112>>

\* line 70: "2025-09-09 12:30"
DatetimeNoon ==
    <<50, 48, 50, 53, 45, 48, 57, 45, 48, 57, 32, 49, 50, 58, 51, 48>>

\* line 71
ConfirmNoonText ==
    <<57, 50900, 32, 57, 51068, 32, 50724, 54980, 32, 49, 50, 49884, 32, 51,
      48, 48516, 44, 32, 52, 47749, 44, 32, 54861, 53097, 48152, 51216, 32,
      50696, 50557, 51012, 32, 51652, 54665, 54624, 44620, 50836, 63>>

\* line 73: "예약해줘."
ReserveItPeriod ==
    <<50696, 50557, 54644, 51480, 46>>

\* line 75: "확정"
StatusConfirmed ==
    <<54869, 51221>>

\* line 75: "2025-09-09 19:00"
DatetimeEvening ==
    <<50, 48, 50, 53, 45, 48, 57, 45, 48, 57, 32, 49, 57, 58, 48, 48>>

\* line 76
ReservedText ==
    <<57, 50900, 32, 57, 51068, 32, 50724, 54980, 32, 55, 49884, 44, 32, 52,
      47749, 44, 32, 54861, 53097, 48152, 51216, 32, 50696, 50557, 51060, 32,
      50756, 47308, 46104, 50632, 49845, 45768, 45796, 46>>

\* line 80: the reply to a message no flow recognises
DefaultText ==
    <<47924, 50631, 51012, 32, 46020, 50752, 46300, 47540, 44620, 50836, 63,
      32, 45796, 51020, 44284, 32, 44057, 51008, 32, 50836, 52397, 51012, 32,
      54644, 48372, 49464, 50836, 58, 10, 10, 128269, 32, 42, 42, 47112,
      49828, 53664, 46993, 32, 52628, 52380, 42, 42, 58, 32, 39, 51060,
      53448, 47532, 50500, 32, 51020, 49885, 32, 52628, 52380, 54644, 51480,
      39, 44, 32, 39, 52852, 54168, 32, 50508, 47140, 51480, 39, 10, 128197,
      32, 42, 42, 50696, 50557, 32, 44288, 47532, 42, 42, 58, 32, 39, 54861,
      53097, 48152, 51216, 32, 50696, 50557, 54644, 51480, 39, 44, 32, 39,
      45236, 51068, 32, 51200, 45377, 32, 50696, 50557, 39, 10, 10, 44396,
      52404, 51201, 51004, 47196, 32, 47568, 50432, 54644, 32, 51452, 49884,
      47732, 32, 45908, 32, 51221, 54869, 54620, 32, 46020, 50880, 51012, 32,
      46300, 47540, 32, 49688, 32, 51080, 49845, 45768, 45796, 46>>

\* line 108: the reply when a flow raised
ErrorText ==
    <<51396, 49569, 54633, 45768, 45796, 46, 32, 51068, 49884, 51201, 51064,
      32, 50724, 47448, 44032, 32, 48156, 49373, 54664, 49845, 45768, 45796,
      46, 32, 45796, 49884, 32, 49884, 46020, 54644, 32, 51452, 49464, 50836,
      46>>

\* "안녕"
Annyeong ==
    <<50504, 45397>>




\* "chicken"
Chicken ==
    <<99, 104, 105, 99, 107, 101, 110>>

\* "예약"
Yeyak ==
    <<50696, 50557>>

\* "xyz"
Xyz ==
    <<120, 121, 122>>

----------------------------------------------------------------------------
(* agent.py: the flows behind _handle_user_message *)

\* str.strip(): s without its leading and trailing white space
Strip(s) ==
    LET inked == {i \in 1..Len(s) : ~IsSpace(s[i])}
    IN  IF inked = {} THEN <<>>
        ELSE SubSeq(s, CHOOSE i \in inked : \A j \in inked : i <= j,
                       CHOOSE i \in inked : \A j \in inked : i >= j)

\* any(keyword in text for keyword in keywords)
AnyKeywordIn(keywords, text) ==
    \E k \in 1..Len(keywords) : IsSubstring(keywords[k], text)

\* line 13: not user_message or user_message.strip() == ""
IsEmptyMessage(message) ==
    \/ message.tag = "null"
    \/ message.v = <<>>
    \/ Strip(message.v) = <<>>

\* lines 23-26: a greeting keyword occurs in user_message.lower().strip()
IsGreeting(text) == AnyKeywordIn(greeting_keywords, Strip(LowerStr(text)))

\* line 40
has_search_intent(text) == AnyKeywordIn(search_keywords, LowerStr(text))

\* lines 41-42
has_food_context(text) ==
    \/ AnyKeywordIn(food_keywords, LowerStr(text))
    \/ AnyKeywordIn(cuisine_keywords, LowerStr(text))

\* line 44
WantsRecommendation(text) ==
    has_search_intent(text) \/ (has_food_context(text) /\ Len(text) > 3)

\* {"type": "Reservation State", "title": "홍콩반점", "id": "222", "status": ...}
ReservationState(status) ==
    [type |-> "Reservation State", title |-> HongKongBanjeom, id |-> Id222,
     status |-> status]

\* the same with "datetime" and "persons": 4
ReservationStateAt(status, datetime) ==
    [type |-> "Reservation State", title |-> HongKongBanjeom, id |-> Id222,
     status |-> status, datetime |-> datetime, persons |-> 4]

\* lines 52-80: _handle_restaurant_reservation_flow(user_message)
_handle_restaurant_reservation_flow(text) ==
    IF AnyKeywordIn(reservation_keywords, LowerStr(text))
    THEN <<Message(ReservationInfoText)>>
    ELSE IF IsSubstring(HongKongBanjeom, text)
    THEN <<ReservationState(StatusCreated), Message(AskDateText)>>
    ELSE IF IsSubstring(More, text)
    THEN <<ReservationStateAt(StatusCreated, DatetimeNoon),
           Message(ConfirmNoonText)>>
    ELSE IF text = ReserveItPeriod
    THEN <<ReservationStateAt(StatusConfirmed, DatetimeEvening),
           Message(ReservedText)>>
    ELSE <<Message(DefaultText)>>

----------------------------------------------------------------------------
(* SpecAgent: one call of _handle_user_message, step by step; a message that
   asks for a recommendation runs search_restaurants with the actions of
   Spec *)

\* line 46: limit=3
AgentLimit == 3

\* the user messages tried; None stands for a message part without text
UserMessages ==
    {Null(<<>>), Val(EmptyText), Val(BlankText), Val(Annyeong), Val(Chicken),
     Val(Recommend), Val(KoreanBBQ), Val(Pizza), Val(Yeyak),
     Val(HongKongBanjeom), Val(More), Val(ReserveItPeriod), Val(Xyz)}

\* _search_service at the time of the call: None ("unset"), a service
\* connected to the Qdrant server ("ready"), or a service that fell back to
\* QdrantClient(":memory:"), which holds no collection ("memory")
InitAgent ==
    /\ pc = "greetings"
    /\ user_message \in UserMessages
    /\ search_service \in {"unset", "ready", "memory"}
    /\ restaurants = Idle
    /\ response = Idle
    /\ query = Idle
    /\ filters = Idle
    /\ limit = Idle
    /\ translator = "unset"
    /\ model_reply = Idle
    /\ enhanced_query = Idle
    /\ query_embedding = Idle
    /\ index_queries = <<>>
    /\ search_results = Idle
    /\ filtered_results = Idle
    /\ results = Idle
    /\ log = <<>>
    /\ location_arg = Idle
    /\ callers = Idle
    /\ instances = Idle
    /\ constructed = Idle
    /\ sessions = Idle
    /\ http_log = Idle
    /\ agent_calls = Idle

\* lines 102-104 and 10-30: _handle_greetings_flow(user_message)
GreetingsFlow ==
    /\ pc = "greetings"
    /\ IF IsEmptyMessage(user_message)
       THEN /\ response' = Return(<<Message(EmptyGreetingText)>>)
            /\ pc' = "handled"
       ELSE IF IsGreeting(user_message.v)
       THEN /\ response' = Return(<<Message(GreetingText)>>)
            /\ pc' = "handled"
       ELSE /\ pc' = "recommendation"
            /\ UNCHANGED response
    /\ UNCHANGED <<location_arg, service_vars, server_vars>>
    /\ UNCHANGED <<user_message, search_service, restaurants>>
    /\ UNCHANGED <<query, filters, limit, translator, model_reply,
                   enhanced_query, query_embedding, index_queries,
                   search_results, filtered_results, results, log>>

\* lines 32-50: _handle_restaurant_recommendation_flow(user_message); line 46
\* and lines 292-295, 231-238 call search_restaurants(user_message,
\* filters=None, limit=3)
RecommendationFlow ==
    /\ pc = "recommendation"
    /\ IF WantsRecommendation(user_message.v)
       THEN /\ pc' = "get_service"
            /\ query' = user_message
            /\ filters' = None(OnlyMinStars(0))
            /\ limit' = AgentLimit
       ELSE /\ pc' = "reservation"
            /\ UNCHANGED <<query, filters, limit>>
    /\ UNCHANGED <<location_arg, service_vars, server_vars>>
    /\ UNCHANGED agent_vars
    /\ UNCHANGED <<translator, model_reply, enhanced_query, query_embedding,
                   index_queries, search_results, filtered_results, results,
                   log>>

\* lines 50 and 52-80: _handle_restaurant_reservation_flow(user_message)
ReservationFlow ==
    /\ pc = "reservation"
    /\ response' = Return(_handle_restaurant_reservation_flow(user_message.v))
    /\ pc' = "handled"
    /\ UNCHANGED <<location_arg, service_vars, server_vars>>
    /\ UNCHANGED <<user_message, search_service, restaurants>>
    /\ UNCHANGED <<query, filters, limit, translator, model_reply,
                   enhanced_query, query_embedding, index_queries,
                   search_results, filtered_results, results, log>>

\* lines 285-290 and 92-110: get_search_service(); the first call builds the
\* service, whose QdrantClient either connects or is replaced by the
\* in-memory client (lines 99-104)
GetSearchService ==
    /\ pc = "get_service"
    /\ IF search_service = "unset"
       THEN search_service' \in {"ready", "memory"}
       ELSE UNCHANGED search_service
    /\ pc' = "translate"
    /\ UNCHANGED <<location_arg, service_vars, server_vars>>
    /\ UNCHANGED <<user_message, restaurants, response>>
    /\ UNCHANGED <<query, filters, limit, translator, model_reply,
                   enhanced_query, query_embedding, index_queries,
                   search_results, filtered_results, results, log>>

\* lines 107-109: import torch or SentenceTransformer(...) raises while the
\* service is built; nothing in restaurant_search.py catches it
GetSearchServiceRaises ==
    /\ pc = "get_service"
    /\ search_service = "unset"
    /\ log' = log \o <<"service raised">>
    /\ pc' = "handle_except"
    /\ UNCHANGED <<location_arg, service_vars, server_vars>>
    /\ UNCHANGED agent_vars
    /\ UNCHANGED <<query, filters, limit, translator, model_reply,
                   enhanced_query, query_embedding, index_queries,
                   search_results, filtered_results, results>>

\* line 47: return format_restaurant_response(restaurants)
Present ==
    /\ pc = "done"
    /\ restaurants' = results.value
    /\ LET o == format_restaurant_response(results.value)
       IN  IF o.raised
           THEN /\ pc' = "handle_except"
                /\ log' = log \o <<"format raised">>
                /\ UNCHANGED response
           ELSE /\ pc' = "handled"
                /\ response' = o
                /\ UNCHANGED log
    /\ UNCHANGED <<location_arg, service_vars, server_vars>>
    /\ UNCHANGED <<user_message, search_service>>
    /\ UNCHANGED <<query, filters, limit, translator, model_reply,
                   enhanced_query, query_embedding, index_queries,
                   search_results, filtered_results, results>>

\* _handle_user_message letting the exception of a flow escape
HandleExceptReraises ==
    /\ pc = "handle_except"
    /\ response' = Raise(<<>>)
    /\ pc' = "handled"
    /\ UNCHANGED <<location_arg, service_vars, server_vars>>
    /\ UNCHANGED <<user_message, search_service, restaurants>>
    /\ UNCHANGED <<query, filters, limit, translator, model_reply,
                   enhanced_query, query_embedding, index_queries,
                   search_results, filtered_results, results, log>>

\* _handle_user_message answering an exception with the no-matches message
HandleExceptNoMatches ==
    /\ pc = "handle_except"
    /\ response' = Return(<<Message(NoMatchesText)>>)
    /\ pc' = "handled"
    /\ UNCHANGED <<location_arg, service_vars, server_vars>>
    /\ UNCHANGED <<user_message, search_service, restaurants>>
    /\ UNCHANGED <<query, filters, limit, translator, model_reply,
                   enhanced_query, query_embedding, index_queries,
                   search_results, filtered_results, results, log>>

\* lines 105-108: except Exception returns the temporary-error message
HandleExcept ==
    /\ pc = "handle_except"
    /\ response' = Return(<<Message(ErrorText)>>)
    /\ pc' = "handled"
    /\ UNCHANGED <<location_arg, service_vars, server_vars>>
    /\ UNCHANGED <<user_message, search_service, restaurants>>
    /\ UNCHANGED <<query, filters, limit, translator, model_reply,
                   enhanced_query, query_embedding, index_queries,
                   search_results, filtered_results, results, log>>

NextAgent ==
    \/ GreetingsFlow
    \/ RecommendationFlow
    \/ ReservationFlow
    \/ GetSearchService
    \/ GetSearchServiceRaises
    \/ Translate
    \/ Encode
    \/ EncodeRaises
    \/ Search
    \/ SearchRaises
    \/ Filter
    \/ Format
    \/ Except
    \/ Present
    \/ HandleExcept

SpecAgent == InitAgent /\ [][NextAgent]_vars

----------------------------------------------------------------------------
(* Properties of _handle_user_message (checked under SpecAgent) *)

AgentDone == pc = "handled"

\* the message was handed to search_restaurants_by_query
SearchRouted ==
    /\ ~IsEmptyMessage(user_message)
    /\ ~IsGreeting(user_message.v)
    /\ WantsRecommendation(user_message.v)

\* the service could not be built, or it was built on the in-memory client
ServiceFailed == "service raised" \in Range(log) \/ search_service = "memory"

NoMatchesResponse == Return(<<Message(NoMatchesText)>>)

C18_AlwaysDisplayItems ==
    AgentDone =>
        /\ ~response.raised
        /\ Len(response.value) >= 1
        /\ \A i \in 1..Len(response.value) :
              /\ "type" \in DOMAIN response.value[i]
              /\ response.value[i].type \in
                    {"Message", "Restaurant Option", "Reservation State"}

\* a flow raised and the handler answered with one message
C18_Witness ==
    /\ AgentDone
    /\ Len(log) > 0
    /\ log[Len(log)] \in {"service raised", "format raised"}
    /\ ~response.raised
    /\ Len(response.value) = 1
    /\ response.value[1].type = "Message"

----------------------------------------------------------------------------
(* Frame of translate_korean_query (checked under SpecTranslate) *)

\* C17: a call of translate_korean_query writes no state that calls share:
\* the process-wide translation service and its translator are the same
\* after every step of a call as before it.
C17_CallWritesNoSharedState ==
    [][pc = "translate_call" => translator' = translator]_vars

----------------------------------------------------------------------------
(* The result of a successful search_restaurants call (checked under Spec) *)

\* the call ended without any step raising
SearchSucceeded == SearchDone /\ ~SomeStepRaised

\* the candidates the filter step lets through: all of them when filters is
\* None
PassingCandidates ==
    IF filters.tag = "none" THEN search_results
    ELSE _apply_manual_filters(search_results, filters.v).value

\* restaurant is the payload of point with point's score as similarity_score
IsScoredPayloadOf(restaurant, point) ==
    /\ DOMAIN restaurant = DOMAIN point.payload \cup {"similarity_score"}
    /\ restaurant.similarity_score = Val(point.score)
    /\ \A k \in DOMAIN point.payload : restaurant[k] = point.payload[k]

\* the filter and truncate steps leave the list the index returned, and the
\* payloads in it, as they were
IndexResultsKept ==
    pc \in {"filter", "format"} => search_results' = search_results

\* C21: a successful call returns the first limit candidates that pass the
\* filter step (all candidates when filters is None), in the order the index
\* ranked them, each as its payload plus its score as similarity_score; and
\* no step after the index query changes the results the index returned.
C21_FirstLimitPassingWithScores ==
    /\ [](SearchSucceeded =>
            /\ IsSubsequence(PassingCandidates, search_results)
            /\ Len(results.value) =
                  (IF Len(PassingCandidates) < limit
                   THEN Len(PassingCandidates) ELSE limit)
            /\ \A i \in 1..Len(results.value) :
                  IsScoredPayloadOf(results.value[i], PassingCandidates[i]))
    /\ [][IndexResultsKept]_vars

\* more candidates than limit passed a filter that dropped the best-ranked
\* one, and the call returned the first limit of them
C21_Witness ==
    /\ SearchSucceeded
    /\ filters.tag = "val"
    /\ Len(PassingCandidates) > limit
    /\ PassingCandidates[1] # search_results[1]
    /\ Len(results.value) = limit
    /\ IsScoredPayloadOf(results.value[1], PassingCandidates[1])

----------------------------------------------------------------------------
(* Routing of _handle_user_message (checked under SpecAgent) *)

\* the answer the recommendation flow gives for the restaurants found
IsSearchAnswer ==
    /\ "translate" \in Range(log) \/ "translate raised" \in Range(log)
    /\ query = user_message
    /\ limit = AgentLimit
    /\ response = format_restaurant_response(results.value)

\* C25: every non-empty message holding a search-intent keyword, or a food
\* or cuisine keyword and more than 3 characters, is answered with
\* format_restaurant_response(search_restaurants_by_query(message, limit=3)).
C25_KeywordMessagesAreSearched ==
    (AgentDone /\ ~IsEmptyMessage(user_message)
        /\ WantsRecommendation(user_message.v)) => IsSearchAnswer

\* C26: the message "예약해줘." is answered with the Reservation State item
\* of status 확정 followed by the reservation-completed message.
C26_ReserveItIsConfirmed ==
    (AgentDone /\ user_message = Val(ReserveItPeriod)) =>
        response = Return(<<ReservationStateAt(StatusConfirmed, DatetimeEvening),
                            Message(ReservedText)>>)

----------------------------------------------------------------------------
(* SpecService: threads calling get_search_service (restaurant_search.py
   lines 282-290) and get_translation_service (translation_service.py lines
   150-158) at the same time; neither function takes a lock, so a thread
   switch can fall between any two of its lines *)

\* number of threads that call at the same time
MaxCallers == 2

Callers == 1..MaxCallers

\* the two module-level services
ServiceKinds == {"search", "translation"}

\* _search_service = None, _translation_service = None
NoInstance == 0

\* a thread inside one of the two functions; a service is named after the
\* thread that constructed it
Caller(kind, at, got) == [kind |-> kind, pc |-> at, got |-> got]

InitService ==
    /\ callers \in [Callers -> {Caller(kind, "test", NoInstance) : kind \in ServiceKinds}]
    /\ instances = [kind \in ServiceKinds |-> NoInstance]
    /\ constructed = [kind \in ServiceKinds |-> {}]
    /\ pc = Idle
    /\ query = Idle
    /\ filters = Idle
    /\ limit = Idle
    /\ translator = Idle
    /\ model_reply = Idle
    /\ enhanced_query = Idle
    /\ query_embedding = Idle
    /\ index_queries = Idle
    /\ search_results = Idle
    /\ filtered_results = Idle
    /\ results = Idle
    /\ log = Idle
    /\ user_message = Idle
    /\ search_service = Idle
    /\ restaurants = Idle
    /\ response = Idle
    /\ location_arg = Idle
    /\ sessions = Idle
    /\ http_log = Idle
    /\ agent_calls = Idle

\* restaurant_search.py line 288, translation_service.py line 156:
\* if _search_service is None
TestIsNone(c) ==
    /\ callers[c].pc = "test"
    /\ callers' = [callers EXCEPT ![c].pc =
                      IF instances[callers[c].kind] = NoInstance
                      THEN "construct" ELSE "return"]
    /\ UNCHANGED <<instances, constructed>>
    /\ UNCHANGED <<pc, query, filters, limit, translator, model_reply,
                   enhanced_query, query_embedding, index_queries,
                   search_results, filtered_results, results, log,
                   location_arg, agent_vars, server_vars>>

\* the right-hand side of line 289 / 157: RestaurantSearchService() or
\* TranslationService() builds a new service
Construct(c) ==
    /\ callers[c].pc = "construct"
    /\ constructed' = [constructed EXCEPT ![callers[c].kind] = @ \cup {c}]
    /\ callers' = [callers EXCEPT ![c].pc = "assign"]
    /\ UNCHANGED instances
    /\ UNCHANGED <<pc, query, filters, limit, translator, model_reply,
                   enhanced_query, query_embedding, index_queries,
                   search_results, filtered_results, results, log,
                   location_arg, agent_vars, server_vars>>

\* the assignment of line 289 / 157
Assign(c) ==
    /\ callers[c].pc = "assign"
    /\ instances' = [instances EXCEPT ![callers[c].kind] = c]
    /\ callers' = [callers EXCEPT ![c].pc = "return"]
    /\ UNCHANGED constructed
    /\ UNCHANGED <<pc, query, filters, limit, translator, model_reply,
                   enhanced_query, query_embedding, index_queries,
                   search_results, filtered_results, results, log,
                   location_arg, agent_vars, server_vars>>

\* line 290 / 158: return _search_service reads the global again
ReturnInstance(c) ==
    /\ callers[c].pc = "return"
    /\ callers' = [callers EXCEPT ![c].pc = "returned",
                                  ![c].got = instances[callers[c].kind]]
    /\ UNCHANGED <<instances, constructed>>
    /\ UNCHANGED <<pc, query, filters, limit, translator, model_reply,
                   enhanced_query, query_embedding, index_queries,
                   search_results, filtered_results, results, log,
                   location_arg, agent_vars, server_vars>>

NextService ==
    \E c \in Callers :
        \/ TestIsNone(c)
        \/ Construct(c)
        \/ Assign(c)
        \/ ReturnInstance(c)

SpecService == InitService /\ [][NextService]_vars

\* C22: however concurrent first calls interleave, at most one service of
\* each class is constructed, and all callers of a function are handed the
\* same instance.
C22_AtMostOneInstance ==
    /\ \A kind \in ServiceKinds : Cardinality(constructed[kind]) <= 1
    /\ \A c, d \in Callers :
          (/\ callers[c].kind = callers[d].kind
           /\ callers[c].pc = "returned"
           /\ callers[d].pc = "returned") => callers[c].got = callers[d].got

----------------------------------------------------------------------------
(* SpecServer: the /session, /greetings and /chat handlers of server.py
   (lines 45-74), one request after another *)

\* number of requests followed
MaxRequests == 3

\* the ids create_book_session can return (uuid4 strings, line 20)
SessionIds == {"s1", "s2"}

\* the session_id field of a request body: absent, null, empty, an issued or
\* issuable id, or an id the server never issues
RequestSessionIds ==
    {Missing(""), Null(""), Val(""), Val("zz")} \cup {Val(id) : id \in SessionIds}

\* an answered request
Answered(endpoint, session_id, status, returned) ==
    [endpoint |-> endpoint, session_id |-> session_id, status |-> status,
     returned |-> returned]

\* a call of invoke_agent made for the request numbered request
AgentCall(request, session_id, message) ==
    [request |-> request, session_id |-> session_id, user_message |-> message]

\* lines 56 and 69: not session_id or session_id not in sessions
IsInvalidSession(session_id) ==
    \/ session_id.tag # "val"
    \/ session_id.v = ""
    \/ session_id.v \notin sessions

InitServer ==
    /\ sessions = {}
    /\ http_log = <<>>
    /\ agent_calls = <<>>
    /\ pc = Idle
    /\ query = Idle
    /\ filters = Idle
    /\ limit = Idle
    /\ translator = Idle
    /\ model_reply = Idle
    /\ enhanced_query = Idle
    /\ query_embedding = Idle
    /\ index_queries = Idle
    /\ search_results = Idle
    /\ filtered_results = Idle
    /\ results = Idle
    /\ log = Idle
    /\ user_message = Idle
    /\ search_service = Idle
    /\ restaurants = Idle
    /\ response = Idle
    /\ location_arg = Idle
    /\ callers = Idle
    /\ instances = Idle
    /\ constructed = Idle

\* lines 45-49 and 19-28: create_book_session returns a new id, which is
\* added to sessions and sent back
CreateSession ==
    /\ Len(http_log) < MaxRequests
    /\ \E id \in SessionIds \ sessions :
          /\ sessions' = sessions \cup {id}
          /\ http_log' = Append(http_log,
                                Answered("session", Missing(""), 200, id))
    /\ UNCHANGED agent_calls
    /\ UNCHANGED <<pc, query, filters, limit, translator, model_reply,
                   enhanced_query, query_embedding, index_queries,
                   search_results, filtered_results, results, log,
                   location_arg, agent_vars, service_vars>>

\* lines 23-25 and 47: the post to the agent server fails, the exception
\* leaves the handler before line 48
CreateSessionFails ==
    /\ Len(http_log) < MaxRequests
    /\ http_log' = Append(http_log, Answered("session", Missing(""), 500, ""))
    /\ UNCHANGED <<sessions, agent_calls>>
    /\ UNCHANGED <<pc, query, filters, limit, translator, model_reply,
                   enhanced_query, query_embedding, index_queries,
                   search_results, filtered_results, results, log,
                   location_arg, agent_vars, service_vars>>

\* Forward accepting every session_id that is present and non-empty, without
\* the test  session_id not in sessions
ForwardWithoutMembershipTest(endpoint, session_id, message) ==
    /\ Len(http_log) < MaxRequests
    /\ IF session_id.tag # "val" \/ session_id.v = ""
       THEN /\ http_log' = Append(http_log,
                                  Answered(endpoint, session_id, 400, ""))
            /\ UNCHANGED agent_calls
       ELSE /\ agent_calls' = Append(agent_calls,
                                     AgentCall(Len(http_log) + 1,
                                               session_id.v, message))
            /\ \E status \in {200, 500} :
                  http_log' = Append(http_log,
                                     Answered(endpoint, session_id, status,
                                              session_id.v))
    /\ UNCHANGED sessions
    /\ UNCHANGED <<pc, query, filters, limit, translator, model_reply,
                   enhanced_query, query_embedding, index_queries,
                   search_results, filtered_results, results, log,
                   location_arg, agent_vars, service_vars>>

\* lines 54-61 and 66-74: the session test, then invoke_agent, which either
\* answers (200) or raises (500)
Forward(endpoint, session_id, message) ==
    /\ Len(http_log) < MaxRequests
    /\ IF IsInvalidSession(session_id)
       THEN /\ http_log' = Append(http_log,
                                  Answered(endpoint, session_id, 400, ""))
            /\ UNCHANGED agent_calls
       ELSE /\ agent_calls' = Append(agent_calls,
                                     AgentCall(Len(http_log) + 1,
                                               session_id.v, message))
            /\ \E status \in {200, 500} :
                  http_log' = Append(http_log,
                                     Answered(endpoint, session_id, status,
                                              session_id.v))
    /\ UNCHANGED sessions
    /\ UNCHANGED <<pc, query, filters, limit, translator, model_reply,
                   enhanced_query, query_embedding, index_queries,
                   search_results, filtered_results, results, log,
                   location_arg, agent_vars, service_vars>>

\* lines 51-61: /greetings calls invoke_agent(session_id), user_message ""
Greetings ==
    \E session_id \in RequestSessionIds :
        Forward("greetings", session_id, EmptyText)

\* lines 63-74: /chat calls invoke_agent(session_id, user_message)
Chat ==
    \E session_id \in RequestSessionIds :
        Forward("chat", session_id, Recommend)

NextServer ==
    \/ CreateSession
    \/ CreateSessionFails
    \/ Greetings
    \/ Chat

SpecServer == InitServer /\ [][NextServer]_vars

----------------------------------------------------------------------------
(* Properties of server.py (checked under SpecServer) *)

\* the ids returned by successful /session requests before request i
IssuedBefore(i) ==
    {http_log[j].returned :
        j \in {k \in 1..(i - 1) : /\ http_log[k].endpoint = "session"
                                  /\ http_log[k].status = 200}}

\* the calls of invoke_agent made for request i
CallsFor(i) == {k \in 1..Len(agent_calls) : agent_calls[k].request = i}

----------------------------------------------------------------------------
(* restaurant_search.py: _parse_preferences (lines 240-280) and
   get_recommendations_by_preferences (lines 231-238) *)

\* lines 245-258: category_keywords, in insertion order
category_keywords ==
    <<
      \* line 246: 'italian'
      [keyword |-> <<105, 116, 97, 108, 105, 97, 110>>,
       categories |-> <<"Italian">>],
      \* line 247: 'pizza'
      [keyword |-> <<112, 105, 122, 122, 97>>,
       categories |-> <<"Pizza", "Italian">>],
      \* line 248: 'chinese'
      [keyword |-> <<99, 104, 105, 110, 101, 115, 101>>,
       categories |-> <<"Chinese">>],
      \* line 249: 'thai'
      [keyword |-> <<116, 104, 97, 105>>,
       categories |-> <<"Thai">>],
      \* line 250: 'mexican'
      [keyword |-> <<109, 101, 120, 105, 99, 97, 110>>,
       categories |-> <<"Mexican">>],
      \* line 251: 'coffee'
      [keyword |-> <<99, 111, 102, 102, 101, 101>>,
       categories |-> <<"Coffee & Tea">>],
      \* line 252: 'breakfast'
      [keyword |-> <<98, 114, 101, 97, 107, 102, 97, 115, 116>>,
       categories |-> <<"Breakfast & Brunch">>],
      \* line 253: 'lunch'
      [keyword |-> <<108, 117, 110, 99, 104>>,
       categories |-> <<"Sandwiches", "American (Traditional)">>],
      \* line 254: 'dinner'
      [keyword |-> <<100, 105, 110, 110, 101, 114>>,
       categories |-> <<"American (New)", "Italian">>],
      \* line 255: 'bar'
      [keyword |-> <<98, 97, 114>>,
       categories |-> <<"Bars", "Wine Bars">>],
      \* line 256: 'fast food'
      [keyword |-> <<102, 97, 115, 116, 32, 102, 111, 111, 100>>,
       categories |-> <<"Fast Food">>],
      \* line 257: 'seafood'
      [keyword |-> <<115, 101, 97, 102, 111, 111, 100>>,
       categories |-> <<"Seafood">>]
    >>

\* line 267: '4 star'
FourStar == <<52, 32, 115, 116, 97, 114>>

\* line 267: 'high rating'
HighRating == <<104, 105, 103, 104, 32, 114, 97, 116, 105, 110, 103>>

\* line 269: '3 star'
ThreeStar == <<51, 32, 115, 116, 97, 114>>

\* line 269: 'good rating'
GoodRating == <<103, 111, 111, 100, 32, 114, 97, 116, 105, 110, 103>>

\* line 273: 'family'
Family == <<102, 97, 109, 105, 108, 121>>

\* line 273: 'kids'
Kids == <<107, 105, 100, 115>>

\* line 277: 'dog'
Dog == <<100, 111, 103>>

\* line 277: 'pet'
Pet == <<112, 101, 116>>

\* lines 260-264: the categories of the first keyword found in the
\* preferences, None when there is none
ParsedCategories(preferences_lower) ==
    LET found == SelectSeq(category_keywords,
                           LAMBDA entry : IsSubstring(entry.keyword,
                                                      preferences_lower))
    IN  IF found = <<>> THEN None(<<>>) ELSE Val(found[1].categories)

\* lines 267-270: min_stars 4.0 or 3.0, in half stars
ParsedMinStars(preferences_lower) ==
    IF IsSubstring(FourStar, preferences_lower)
         \/ IsSubstring(HighRating, preferences_lower) THEN Val(8)
    ELSE IF IsSubstring(ThreeStar, preferences_lower)
              \/ IsSubstring(GoodRating, preferences_lower) THEN Val(6)
    ELSE None(0)

\* _parse_preferences(preferences, location)
_parse_preferences(preferences, location) ==
    LET preferences_lower == LowerStr(preferences)
    IN  SearchFilters(
            Val(location),
            ParsedCategories(preferences_lower),
            ParsedMinStars(preferences_lower),
            IF IsSubstring(Family, preferences_lower)
                 \/ IsSubstring(Kids, preferences_lower)
            THEN Val(TRUE) ELSE None(FALSE),
            IF IsSubstring(Dog, preferences_lower)
                 \/ IsSubstring(Pet, preferences_lower)
            THEN Val(TRUE) ELSE None(FALSE))

----------------------------------------------------------------------------
(* SpecRecommend: one call of get_recommendations_by_preferences, which
   runs search_restaurants with the actions of Spec *)

\* "pizza for kids"
PizzaForKids == <<112, 105, 122, 122, 97, 32, 102, 111, 114, 32, 107, 105, 100, 115>>

\* "thai 4 star"
ThaiFourStar == <<116, 104, 97, 105, 32, 52, 32, 115, 116, 97, 114>>

\* the preferences tried
PreferenceTexts == {PizzaForKids, ThaiFourStar, KoreanBBQ, Eumsik}

\* the location arguments tried; "Santa Barbara" is the default
LocationTexts == {SantaBarbara, Goleta, EmptyText}

InitRecommend ==
    /\ pc = "recommend"
    /\ query \in {Val(text) : text \in PreferenceTexts}
    /\ location_arg \in LocationTexts
    /\ limit \in 1..MaxLimit
    /\ filters = Idle
    /\ translator = "unset"
    /\ model_reply = Idle
    /\ enhanced_query = Idle
    /\ query_embedding = Idle
    /\ index_queries = <<>>
    /\ search_results = Idle
    /\ filtered_results = Idle
    /\ results = Idle
    /\ log = <<>>
    /\ user_message = Idle
    /\ search_service = Idle
    /\ restaurants = Idle
    /\ response = Idle
    /\ callers = Idle
    /\ instances = Idle
    /\ constructed = Idle
    /\ sessions = Idle
    /\ http_log = Idle
    /\ agent_calls = Idle

\* get_recommendations_by_preferences passing the filters that
\* _parse_preferences derives from the preferences and the location
GetRecommendationsWithParsedFilters ==
    /\ pc = "recommend"
    /\ filters' = Val(_parse_preferences(query.v, location_arg))
    /\ pc' = "translate"
    /\ UNCHANGED <<query, limit, translator, model_reply, enhanced_query,
                   query_embedding, index_queries, search_results,
                   filtered_results, results, log, location_arg, agent_vars,
                   service_vars, server_vars>>

\* line 238: return self.search_restaurants(preferences, filters=None,
\* limit=limit)
GetRecommendationsByPreferences ==
    /\ pc = "recommend"
    /\ filters' = None(OnlyMinStars(0))
    /\ pc' = "translate"
    /\ UNCHANGED <<query, limit, translator, model_reply, enhanced_query,
                   query_embedding, index_queries, search_results,
                   filtered_results, results, log, location_arg, agent_vars,
                   service_vars, server_vars>>

NextRecommend ==
    \/ GetRecommendationsByPreferences
    \/ Translate
    \/ Encode
    \/ EncodeRaises
    \/ Search
    \/ SearchRaises
    \/ Filter
    \/ Format
    \/ Except

SpecRecommend == InitRecommend /\ [][NextRecommend]_vars

\* the candidates the filters parsed from the preferences and the location
\* would let through
ParsedFilterKeepsNone ==
    LET o == _apply_manual_filters(search_results,
                                   _parse_preferences(query.v, location_arg))
    IN  o.raised \/ o.value = <<>>

\* C24: get_recommendations_by_preferences runs search_restaurants with
\* filters=None: the filter step is skipped and, on success, the result is
\* the first limit candidates of the index, whatever the location and the
\* keywords of the preferences.
C24_NoStructuredFilter ==
    /\ pc # "recommend" => filters.tag = "none"
    /\ SearchDone =>
          /\ "filter" \notin Range(log)
          /\ "filter raised" \notin Range(log)
    /\ SearchSucceeded =>
          /\ filtered_results = search_results
          /\ results = Return([i \in 1..Len(Prefix(search_results, limit)) |->
                                  RestaurantData(search_results[i])])

\* restaurants were returned although none of the candidates passes the
\* filters that the keywords and the location would give
C24_Witness ==
    /\ SearchSucceeded
    /\ query = Val(PizzaForKids)
    /\ location_arg = Goleta
    /\ ParsedFilterKeepsNone
    /\ Len(results.value) = limit

====
